---------------------------- MODULE Spec2Model ----------------------------
(***************************************************************************)
(* Model of the image_processor host and its two filter modules            *)
(* (mirror_plugin, blur_plugin): the process_image entry points, the       *)
(* parameter decoding behind them, the flip and blur engines, and the      *)
(* host's run() sequence.                                                  *)
(*                                                                         *)
(* Representation:                                                         *)
(*  - a u32 / usize is the sequence of its little-endian bytes (4 / 8 of   *)
(*    them), so that width * height * 4 keeps its width and checked_mul    *)
(*    can overflow;                                                        *)
(*  - a pointer is a record [null, mem]: mem is what it points to;         *)
(*  - a parameter text is the sequence of its JSON lexemes;                *)
(*  - a pixel buffer is the flat sequence of its bytes (1-based here,      *)
(*    index i of the code is index i + 1 of the sequence).                 *)
(***************************************************************************)
EXTENDS Integers, Sequences, FiniteSets, TLC

VARIABLES
    pc,         \* position of the run / of the call
    plugin,     \* the module whose entry point is called
    width,      \* u32 argument of the call
    height,     \* u32 argument of the call
    rgba_data,  \* pointer argument: the pixel buffer
    params,     \* pointer argument: the C string of parameters
    status,     \* what the entry point returned
    orig,       \* ghost: the buffer as it was before the first operation
    touched,    \* ghost: byte indices (0-based) the call read or wrote
    cfg,        \* ghost: the configuration the module decoded and used
    hist,       \* ghost: the operations applied so far
    err,        \* host: the AppError run() returned ("none": Ok)
    output,     \* host: the saved output file (a pointer record; null: not written)
    calls       \* host: number of entry point invocations

vars == <<pc, plugin, width, height, rgba_data, params, status, orig,
          touched, cfg, hist, err, output, calls>>

----------------------------------------------------------------------------
(* Bounds of the model *)

\* largest width and height of the images drawn for the flips and the calls
MaxDim == 3
\* largest width and height of the single-bright-pixel images drawn for the blur
MaxBrightDim == 7
\* largest blur radius drawn
MaxRadius == 2
\* largest iteration count drawn
MaxIter == 3
\* flips applied in a row by the flip harness
MaxOps == 2
\* passes of the blur over an image of one bright pixel
MaxPasses == 5
\* largest side of the images of one bright pixel away from the borders
MaxBrightSide == 6

----------------------------------------------------------------------------
(* Program constants *)

BYTES_PER_PIXEL == 4
\* bytes of a u32 and of a usize (64-bit target)
U32Bytes == 4
UsizeBytes == 8
\* one byte holds 0 .. Byte - 1
Byte == 256

\* what a call returned: nothing (a void entry point, or no call yet) or a c_int
NoStatus == [returned |-> FALSE, code |-> 0]
Returned(c) == [returned |-> TRUE, code |-> c]

----------------------------------------------------------------------------
(* Fixed-width unsigned integers as little-endian byte sequences *)

RECURSIVE NatToBytes(_, _)
NatToBytes(n, len) ==
    IF len = 0 THEN <<>> ELSE <<n % Byte>> \o NatToBytes(n \div Byte, len - 1)

RECURSIVE BytesToNat(_)
BytesToNat(b) ==
    IF b = <<>> THEN 0 ELSE b[1] + Byte * BytesToNat(Tail(b))

U32(n) == NatToBytes(n, U32Bytes)
Usize(n) == NatToBytes(n, UsizeBytes)

IsZero(b) == \A i \in 1..Len(b) : b[i] = 0

\* column k (0-based) of the schoolbook product of a and b
RECURSIVE ColSum(_, _, _, _)
ColSum(a, b, k, i) ==
    IF i > k THEN 0
    ELSE (IF i < Len(a) /\ k - i < Len(b) THEN a[i + 1] * b[k - i + 1] ELSE 0)
         + ColSum(a, b, k, i + 1)

\* the full product of a and b: Len(a) + Len(b) bytes
RECURSIVE MulBytes(_, _, _, _)
MulBytes(a, b, k, carry) ==
    IF k = Len(a) + Len(b) THEN <<>>
    ELSE LET t == carry + ColSum(a, b, k, 0)
         IN <<t % Byte>> \o MulBytes(a, b, k + 1, t \div Byte)

None == [some |-> FALSE, v |-> <<>>]
Some(v) == [some |-> TRUE, v |-> v]

\* usize::try_from(u32): a usize is at least as wide as a u32, so it succeeds
usize_try_from(v) == Some(v \o [i \in 1..(UsizeBytes - Len(v)) |-> 0])

\* usize::checked_mul: None when the product does not fit in a usize
checked_mul(a, b) ==
    LET p == MulBytes(a, b, 0, 0)
    IN IF \A i \in (UsizeBytes + 1)..Len(p) : p[i] = 0
       THEN Some(SubSeq(p, 1, UsizeBytes))
       ELSE None

\* Option::filter(|&v| v > 0)
filter_positive(o) == IF o.some /\ ~IsZero(o.v) THEN o ELSE None

\* Option::and_then(|v| v.checked_mul(BYTES_PER_PIXEL))
and_then_mul(o, n) == IF o.some THEN checked_mul(o.v, Usize(n)) ELSE None

----------------------------------------------------------------------------
(* Parameter texts: sequences of JSON lexemes *)

Tok(k) == [k |-> k, s |-> "", n |-> <<>>]
LBrace == Tok("{")
RBrace == Tok("}")
LBrack == Tok("[")
RBrack == Tok("]")
Colon == Tok(":")
Comma == Tok(",")
JTrue == Tok("true")
JFalse == Tok("false")
JNull == Tok("null")
\* characters that begin no JSON value
Junk == Tok("junk")
\* a byte sequence that is not UTF-8
BadUtf8 == Tok("badutf8")
\* a NUL byte inside the text
Nul == Tok("nul")
Str(s) == [k |-> "str", s |-> s, n |-> <<>>]
\* numbers: an unsigned integer literal, a negative one, one with a fraction
\* or exponent; n is the magnitude of the integer part in little-endian bytes
UInt(n) == [k |-> "num", s |-> "uint", n |-> n]
NegInt(n) == [k |-> "num", s |-> "negint", n |-> n]
Float(n) == [k |-> "num", s |-> "float", n |-> n]

Null == [null |-> TRUE, mem |-> <<>>]
Ptr(m) == [null |-> FALSE, mem |-> m]

\* the first position of a lexeme of kind k in t, Len(t) + 1 if there is none
RECURSIVE Find(_, _, _)
Find(t, k, i) ==
    IF i > Len(t) THEN i ELSE IF t[i].k = k THEN i ELSE Find(t, k, i + 1)

\* CStr::from_ptr: the bytes up to the first NUL
CStr_from_ptr(p) == SubSeq(p.mem, 1, Find(p.mem, "nul", 1) - 1)

\* CStr::to_str().unwrap_or(""): the text, or "" when it is not UTF-8
to_str_or_empty(c) == IF Find(c, "badutf8", 1) <= Len(c) THEN <<>> ELSE c

\* CString::new(params).unwrap_or_default(): "" when params holds a NUL
CString_new_or_default(t) == IF Find(t, "nul", 1) <= Len(t) THEN <<>> ELSE t

----------------------------------------------------------------------------
(* serde_json::from_str into a struct of two fields, as serde derives it *)

IsScalar(tok) == tok.k \in {"num", "str", "true", "false", "null"}

\* a variant of the skipping of an unknown field's value that refuses the
\* field, as #[serde(deny_unknown_fields)] would
deny_unknown_fields(t, i) == IF i > Len(t) THEN 0 ELSE 0 * i

\* IgnoredAny: the position after the JSON value that starts at i, 0 when the
\* text is malformed there. Arrays and objects nest.
RECURSIVE SkipValue(_, _)
RECURSIVE SkipElems(_, _, _)
RECURSIVE SkipMembers(_, _, _)
SkipValue(t, i) ==
    IF i > Len(t) THEN 0
    ELSE IF IsScalar(t[i]) THEN i + 1
    ELSE IF t[i] = LBrack THEN SkipElems(t, i + 1, TRUE)
    ELSE IF t[i] = LBrace THEN SkipMembers(t, i + 1, TRUE)
    ELSE 0

SkipElems(t, i, first) ==
    IF i > Len(t) THEN 0
    ELSE IF t[i] = RBrack THEN i + 1
    ELSE IF first
         THEN LET j == SkipValue(t, i) IN IF j = 0 THEN 0 ELSE SkipElems(t, j, FALSE)
    ELSE IF t[i] # Comma \/ i + 1 > Len(t) \/ t[i + 1] = RBrack THEN 0
    ELSE LET j == SkipValue(t, i + 1) IN IF j = 0 THEN 0 ELSE SkipElems(t, j, FALSE)

SkipMembers(t, i, first) ==
    IF i > Len(t) THEN 0
    ELSE IF t[i] = RBrace THEN i + 1
    ELSE LET k == IF first THEN i ELSE i + 1
         IN IF ~first /\ t[i] # Comma THEN 0
            ELSE IF k + 1 > Len(t) \/ t[k].k # "str" \/ t[k + 1] # Colon THEN 0
            ELSE LET j == SkipValue(t, k + 2)
                 IN IF j = 0 THEN 0 ELSE SkipMembers(t, j, FALSE)

Err == [ok |-> FALSE, v |-> <<>>]
Ok(v) == [ok |-> TRUE, v |-> v]

\* Deserialize for bool: only the literals true and false
deserialize_bool(tok) ==
    IF tok.k = "true" THEN Ok(TRUE)
    ELSE IF tok.k = "false" THEN Ok(FALSE)
    ELSE Err

\* Deserialize for u32: an unsigned integer literal that fits in 32 bits
deserialize_u32(tok) ==
    IF tok.k = "num" /\ tok.s = "uint"
       /\ \A i \in (U32Bytes + 1)..Len(tok.n) : tok.n[i] = 0
    THEN Ok(BytesToNat(tok.n))
    ELSE Err

deserialize_field(ty, tok) ==
    IF ty = "bool" THEN deserialize_bool(tok) ELSE deserialize_u32(tok)

\* The derived visit_map, from the position after "{" or after a value.
\* names: the two field names; seen: which were read; vals: their values
\* (the defaults until read). The result carries the position after "}".
RECURSIVE visit_map(_, _, _, _, _, _, _)
visit_map(t, i, first, names, ty, seen, vals) ==
    IF i > Len(t) THEN Err
    ELSE IF t[i] = RBrace THEN Ok(<<vals, i + 1>>)
    ELSE LET k == IF first THEN i ELSE i + 1
         IN IF ~first /\ t[i] # Comma THEN Err
            ELSE IF k + 2 > Len(t) \/ t[k].k # "str" \/ t[k + 1] # Colon THEN Err
            ELSE IF \E f \in 1..2 : names[f] = t[k].s
            THEN LET f == CHOOSE f \in 1..2 : names[f] = t[k].s
                     d == deserialize_field(ty, t[k + 2])
                 IN IF seen[f] \/ ~d.ok THEN Err
                    ELSE visit_map(t, k + 3, FALSE, names, ty,
                                   [seen EXCEPT ![f] = TRUE],
                                   [vals EXCEPT ![f] = d.v])
            ELSE LET j == SkipValue(t, k + 2)
                 IN IF j = 0 THEN Err
                    ELSE visit_map(t, j, FALSE, names, ty, seen, vals)

\* The derived visit_seq, from the position after "[": the elements are the
\* fields in declaration order, a missing element takes the field's default.
visit_seq(t, i, ty, vals) ==
    IF i > Len(t) THEN Err
    ELSE IF t[i] = RBrack THEN Ok(<<vals, i + 1>>)
    ELSE LET d1 == deserialize_field(ty, t[i])
         IN IF ~d1.ok \/ i + 1 > Len(t) THEN Err
            ELSE IF t[i + 1] = RBrack THEN Ok(<<[vals EXCEPT ![1] = d1.v], i + 2>>)
            ELSE IF t[i + 1] # Comma \/ i + 3 > Len(t) THEN Err
            ELSE LET d2 == deserialize_field(ty, t[i + 2])
                 IN IF ~d2.ok \/ t[i + 3] # RBrack THEN Err
                    ELSE Ok(<<[vals EXCEPT ![1] = d1.v, ![2] = d2.v], i + 4>>)

\* serde_json::from_str::<T>: one struct value, then the end of the text
from_str(t, names, ty, defaults) ==
    IF t = <<>> THEN Err
    ELSE LET r == IF t[1] = LBrace
                  THEN visit_map(t, 2, TRUE, names, ty, <<FALSE, FALSE>>, defaults)
                  ELSE IF t[1] = LBrack THEN visit_seq(t, 2, ty, defaults)
                  ELSE Err
         IN IF r.ok /\ r.v[2] = Len(t) + 1 THEN Ok(r.v[1]) ELSE Err

----------------------------------------------------------------------------
(* mirror_plugin: the Axis Flip Engine *)

\* a variant of swap that assigns instead of exchanging: data[a] = data[b]
swap_copy(data, a, b) == [data EXCEPT ![a + 1] = data[b + 1]]

\* slice::swap(a, b), a and b 0-based
swap(data, a, b) == [data EXCEPT ![a + 1] = data[b + 1], ![b + 1] = data[a + 1]]

\* for i in 0..BYTES_PER_PIXEL { data.swap(left + i, right + i) }
\* The indices are in bounds: data has width * height * 4 bytes.
RECURSIVE swap_pixels(_, _, _, _)
swap_pixels(data, left, right, i) ==
    IF i >= BYTES_PER_PIXEL \/ right + i >= Len(data) THEN data
    ELSE swap_pixels(swap(data, left + i, right + i), left, right, i + 1)

\* a variant of flip_row whose loop runs over the whole row: for x in 0..width
RECURSIVE flip_row_whole(_, _, _, _)
flip_row_whole(data, w, row_start, x) ==
    IF x >= w \/ row_start + w * BYTES_PER_PIXEL > Len(data) THEN data
    ELSE LET left == row_start + x * BYTES_PER_PIXEL
             right == row_start + (w - 1 - x) * BYTES_PER_PIXEL
         IN flip_row_whole(swap_pixels(data, left, right, 0), w, row_start, x + 1)

\* for x in 0..width / 2 { ... }
RECURSIVE flip_row(_, _, _, _)
flip_row(data, w, row_start, x) ==
    IF x >= w \div 2 \/ row_start + w * BYTES_PER_PIXEL > Len(data) THEN data
    ELSE LET left == row_start + x * BYTES_PER_PIXEL
             right == row_start + (w - 1 - x) * BYTES_PER_PIXEL
         IN flip_row(swap_pixels(data, left, right, 0), w, row_start, x + 1)

\* for y in 0..height { ... }
RECURSIVE flip_rows(_, _, _, _)
flip_rows(data, w, h, y) ==
    IF y >= h \/ (y + 1) * w * BYTES_PER_PIXEL > Len(data) THEN data
    ELSE LET row_bytes == w * BYTES_PER_PIXEL
         IN flip_rows(flip_row(data, w, y * row_bytes, 0), w, h, y + 1)

flip_horizontal(data, w, h) == flip_rows(data, w, h, 0)

\* for i in 0..row_bytes { data.swap(top_start + i, bottom_start + i) }
RECURSIVE swap_rows(_, _, _, _, _)
swap_rows(data, top_start, bottom_start, row_bytes, i) ==
    IF i >= row_bytes \/ bottom_start + i >= Len(data) THEN data
    ELSE swap_rows(swap(data, top_start + i, bottom_start + i),
                   top_start, bottom_start, row_bytes, i + 1)

\* a variant of flip_columns whose loop runs over every row: for y in 0..height
RECURSIVE flip_columns_whole(_, _, _, _)
flip_columns_whole(data, w, h, y) ==
    IF y >= h \/ h * w * BYTES_PER_PIXEL > Len(data) THEN data
    ELSE LET row_bytes == w * BYTES_PER_PIXEL
             top_start == y * row_bytes
             bottom_start == (h - 1 - y) * row_bytes
         IN flip_columns_whole(swap_rows(data, top_start, bottom_start, row_bytes, 0),
                               w, h, y + 1)

\* for y in 0..height / 2 { ... }
RECURSIVE flip_columns(_, _, _, _)
flip_columns(data, w, h, y) ==
    IF y >= h \div 2 \/ h * w * BYTES_PER_PIXEL > Len(data) THEN data
    ELSE LET row_bytes == w * BYTES_PER_PIXEL
             top_start == y * row_bytes
             bottom_start == (h - 1 - y) * row_bytes
         IN flip_columns(swap_rows(data, top_start, bottom_start, row_bytes, 0),
                         w, h, y + 1)

flip_vertical(data, w, h) == flip_columns(data, w, h, 0)

\* the byte indices flip_horizontal swaps
flip_horizontal_touched(w, h) ==
    UNION {{y * w * BYTES_PER_PIXEL + x * BYTES_PER_PIXEL + i,
            y * w * BYTES_PER_PIXEL + (w - 1 - x) * BYTES_PER_PIXEL + i} :
           <<y, x, i>> \in (0..(h - 1)) \X (0..(w \div 2 - 1))
                           \X (0..(BYTES_PER_PIXEL - 1))}

\* the byte indices flip_vertical swaps
flip_vertical_touched(w, h) ==
    UNION {{y * w * BYTES_PER_PIXEL + i,
            (h - 1 - y) * w * BYTES_PER_PIXEL + i} :
           <<y, i>> \in (0..(h \div 2 - 1)) \X (0..(w * BYTES_PER_PIXEL - 1))}

----------------------------------------------------------------------------
(* mirror_plugin: the entry point *)

NoCfg == [set |-> FALSE, horizontal |-> FALSE, vertical |-> FALSE,
          radius |-> 0, iterations |-> 0]

\* what a call did: the status returned, the buffer afterwards, the indices
\* accessed, the configuration used
Outcome(st, data, acc, c) == [status |-> st, data |-> data, touched |-> acc, cfg |-> c]

MirrorFields == <<"horizontal", "vertical">>
\* #[serde(default)] on both fields: bool::default()
MirrorDefaults == <<FALSE, FALSE>>

MirrorParams(v) == [set |-> TRUE, horizontal |-> v[1], vertical |-> v[2],
                    radius |-> 0, iterations |-> 0]

\* the two flips, applied after the parameters decoded
mirror_apply(data, w, h, mp) ==
    LET d1 == IF mp.horizontal THEN flip_horizontal(data, w, h) ELSE data
    IN IF mp.vertical THEN flip_vertical(d1, w, h) ELSE d1

mirror_apply_touched(w, h, mp) ==
    (IF mp.horizontal THEN flip_horizontal_touched(w, h) ELSE {})
    \cup (IF mp.vertical THEN flip_vertical_touched(w, h) ELSE {})

\* a variant of process_image that flips the rows before it decodes the
\* parameters, and so has flipped them when it returns 4
mirror_process_image_flip_first(w32, h32, data_ptr, params_ptr) ==
    IF data_ptr.null \/ params_ptr.null THEN Outcome(Returned(1), data_ptr.mem, {}, NoCfg)
    ELSE LET w == filter_positive(usize_try_from(w32))
             h == filter_positive(usize_try_from(h32))
         IN IF ~w.some \/ ~h.some THEN Outcome(Returned(2), data_ptr.mem, {}, NoCfg)
            ELSE IF ~and_then_mul(checked_mul(w.v, h.v), BYTES_PER_PIXEL).some
                 THEN Outcome(Returned(3), data_ptr.mem, {}, NoCfg)
            ELSE LET wn == BytesToNat(w.v)
                     hn == BytesToNat(h.v)
                     flipped == flip_horizontal(data_ptr.mem, wn, hn)
                     parsed == from_str(to_str_or_empty(CStr_from_ptr(params_ptr)),
                                        MirrorFields, "bool", MirrorDefaults)
                 IN IF ~parsed.ok
                    THEN Outcome(Returned(4), flipped, flip_horizontal_touched(wn, hn), NoCfg)
                    ELSE LET mp == MirrorParams(parsed.v)
                         IN Outcome(Returned(0), mirror_apply(data_ptr.mem, wn, hn, mp),
                                    mirror_apply_touched(wn, hn, mp), mp)

\* a variant of process_image that checks the dimensions before the pointers
mirror_process_image_dims_first(w32, h32, data_ptr, params_ptr) ==
    LET w == filter_positive(usize_try_from(w32))
        h == filter_positive(usize_try_from(h32))
    IN IF ~w.some \/ ~h.some THEN Outcome(Returned(2), data_ptr.mem, {}, NoCfg)
       ELSE IF data_ptr.null \/ params_ptr.null
            THEN Outcome(Returned(1), data_ptr.mem, {}, NoCfg)
       ELSE IF ~and_then_mul(checked_mul(w.v, h.v), BYTES_PER_PIXEL).some
            THEN Outcome(Returned(3), data_ptr.mem, {}, NoCfg)
       ELSE LET parsed == from_str(to_str_or_empty(CStr_from_ptr(params_ptr)),
                                   MirrorFields, "bool", MirrorDefaults)
            IN IF ~parsed.ok THEN Outcome(Returned(4), data_ptr.mem, {}, NoCfg)
               ELSE LET mp == MirrorParams(parsed.v)
                        wn == BytesToNat(w.v)
                        hn == BytesToNat(h.v)
                    IN Outcome(Returned(0), mirror_apply(data_ptr.mem, wn, hn, mp),
                               mirror_apply_touched(wn, hn, mp), mp)

\* process_image of mirror_plugin. A caller that passes a non-null buffer
\* and dimensions that pass the checks passes a buffer of that many bytes.
mirror_process_image(w32, h32, data_ptr, params_ptr) ==
    IF data_ptr.null \/ params_ptr.null THEN Outcome(Returned(1), data_ptr.mem, {}, NoCfg)
    ELSE LET w == filter_positive(usize_try_from(w32))
             h == filter_positive(usize_try_from(h32))
         IN IF ~w.some THEN Outcome(Returned(2), data_ptr.mem, {}, NoCfg)
            ELSE IF ~h.some THEN Outcome(Returned(2), data_ptr.mem, {}, NoCfg)
            ELSE LET buf_len == and_then_mul(checked_mul(w.v, h.v), BYTES_PER_PIXEL)
                 IN IF ~buf_len.some THEN Outcome(Returned(3), data_ptr.mem, {}, NoCfg)
                    ELSE LET data == data_ptr.mem
                             params_str == to_str_or_empty(CStr_from_ptr(params_ptr))
                             parsed == from_str(params_str, MirrorFields, "bool",
                                                MirrorDefaults)
                         IN IF ~parsed.ok THEN Outcome(Returned(4), data, {}, NoCfg)
                            ELSE LET mp == MirrorParams(parsed.v)
                                     wn == BytesToNat(w.v)
                                     hn == BytesToNat(h.v)
                                 IN Outcome(Returned(0), mirror_apply(data, wn, hn, mp),
                                            mirror_apply_touched(wn, hn, mp), mp)

----------------------------------------------------------------------------
(* blur_plugin: the Weighted Blur Engine *)

\* vec![0u8; data.len()]
zeroes(n) == [i \in 1..n |-> 0]

Min(a, b) == IF a <= b THEN a ELSE b
saturating_sub(a, b) == IF a >= b THEN a - b ELSE 0
abs_diff(a, b) == IF a >= b THEN a - b ELSE b - a

(***************************************************************************)
(* f64: the finite values >= 0 of the blur.  A value is mant * 2^exp with  *)
(* mant = 0, or 2^52 <= mant < 2^53 (53 significant bits).  mant is kept   *)
(* in three limbs <<high, middle, low>> of LimbBits bits each, so that no  *)
(* intermediate value needs more than 31 bits.  Every operation rounds its *)
(* exact result to the nearest value, ties to even, as IEEE 754 does.      *)
(***************************************************************************)
LimbBits == 21
Limb == 2 ^ LimbBits
MantissaBits == 53
\* the bits of the high limb of a mantissa of MantissaBits bits
HighBits == MantissaBits - 2 * LimbBits

\* limbs that ran over Limb, carried into the next limb
Carry(hi, mid, lo) ==
    LET m1 == mid + lo \div Limb
    IN <<hi + m1 \div Limb, m1 % Limb, lo % Limb>>

AddLimbs(a, b) == Carry(a[1] + b[1], a[2] + b[2], a[3] + b[3])
TimesSmall(a, k) == Carry(a[1] * k, a[2] * k, a[3] * k)
LessLimbs(a, b) ==
    \/ a[1] < b[1]
    \/ a[1] = b[1] /\ a[2] < b[2]
    \/ a[1] = b[1] /\ a[2] = b[2] /\ a[3] < b[3]
\* a - b for a >= b
SubLimbs(a, b) ==
    LET lo == a[3] - b[3]
        bl == IF lo < 0 THEN 1 ELSE 0
        mid == a[2] - b[2] - bl
        bm == IF mid < 0 THEN 1 ELSE 0
    IN <<a[1] - b[1] - bm, mid + bm * Limb, lo + bl * Limb>>
NoLimbs == <<0, 0, 0>>

\* the number of bits of n: 0 for 0, k for 2^(k-1) <= n < 2^k
RECURSIVE BitLen(_)
BitLen(n) ==
    IF n < 2 THEN n
    ELSE IF n < 16 THEN 1 + BitLen(n \div 2)
    ELSE 4 + BitLen(n \div 16)

\* a shifted right by d bits, 0 <= d <= LimbBits, the bits shifted out dropped
ShiftRight(a, d) ==
    LET p == 2 ^ d
        q == 2 ^ (LimbBits - d)
    IN <<a[1] \div p,
         a[2] \div p + (a[1] % p) * q,
         a[3] \div p + (a[2] % p) * q>>

\* a shifted right by k bits, 0 <= k < 3 * LimbBits
RECURSIVE ShiftRightBy(_, _)
ShiftRightBy(a, k) ==
    IF k >= LimbBits THEN ShiftRightBy(<<0, a[1], a[2]>>, k - LimbBits)
    ELSE ShiftRight(a, k)

\* the k low bits of one limb against half of 2^k, 0 < k <= LimbBits: 0 none
\* set, 1 less than half, 2 half, 3 more than half
LostOfLimb(rest, half) ==
    IF rest = 0 THEN 0 ELSE IF rest < half THEN 1 ELSE IF rest = half THEN 2 ELSE 3

\* the bits lost above a low limb, and that limb: nothing of the low limb
\* set leaves them as they are, else they are no longer none and no longer half
LostWithLow(high, low) == IF low = 0 THEN high ELSE IF high < 2 THEN 1 ELSE 3

\* the bits of a that a shift right by k drops, 0 <= k <= 3 * LimbBits,
\* against half a unit of what is left: 0 none set, 1 less than half, 2 half,
\* 3 more than half
RECURSIVE LostBits(_, _)
LostBits(a, k) ==
    IF k > LimbBits THEN LostWithLow(LostBits(<<0, a[1], a[2]>>, k - LimbBits), a[3])
    ELSE IF k = 0 THEN 0
    ELSE LostOfLimb(a[3] % (2 ^ k), 2 ^ (k - 1))

F64(mant, exp) == [mant |-> mant, exp |-> exp]
F64Zero == F64(NoLimbs, 0)
F64One == F64(<<2 ^ (HighBits - 1), 0, 0>>, 1 - MantissaBits)
IsF64Zero(x) == x.mant = NoLimbs

\* the mantissa m of MantissaBits bits, or the next one if up: the mantissa
\* after 2^53 - 1 is 2^52 with the next exponent
RoundUp(m, exp, up) ==
    IF ~up THEN F64(m, exp)
    ELSE IF m[3] + 1 < Limb THEN F64(<<m[1], m[2], m[3] + 1>>, exp)
    ELSE IF m[2] + 1 < Limb THEN F64(<<m[1], m[2] + 1, 0>>, exp)
    ELSE IF m[1] + 1 < 2 ^ HighBits THEN F64(<<m[1] + 1, 0, 0>>, exp)
    ELSE F64(<<2 ^ (HighBits - 1), 0, 0>>, exp + 1)

\* round to nearest, ties to even: q is what is left of the exact result,
\* lost the bits under it (see LostBits); sticky: more bits were lost below
\* those, so half is more than half
Nearest(q, exp, lost, sticky) ==
    RoundUp(q, exp, lost = 3 \/ (lost = 2 /\ (sticky \/ q[3] % 2 = 1)))

\* a * 2^exp with the d low bits of a rounded away
RoundShift(a, exp, sticky, d) ==
    IF d <= 0 THEN F64(a, exp)
    ELSE Nearest(ShiftRight(a, d), exp + d, LostBits(a, d), sticky)

\* the value nearest to a * 2^exp, for limbs a of at most MantissaBits +
\* LimbBits bits; sticky: bits below a were lost, so a is no exact tie
RoundToF64(a, exp, sticky) == RoundShift(a, exp, sticky, BitLen(a[1]) - HighBits)

F64Less(x, y) ==
    IF IsF64Zero(y) THEN FALSE
    ELSE IF IsF64Zero(x) THEN TRUE
    ELSE x.exp < y.exp \/ (x.exp = y.exp /\ LessLimbs(x.mant, y.mant))

\* x.max(y)
F64Max(x, y) == IF F64Less(x, y) THEN y ELSE x

\* the sum t of two aligned mantissas, of MantissaBits bits or one more,
\* rounded by the bits that the alignment dropped; with one more bit the low
\* bit of t is dropped too
AddRound(t, exp, lost) ==
    IF t[1] < 2 ^ HighBits THEN Nearest(t, exp, lost, FALSE)
    ELSE RoundUp(ShiftRight(t, 1), exp + 1,
                 t[3] % 2 = 1 /\ (lost # 0 \/ (t[3] \div 2) % 2 = 1))

\* big + small for big.exp >= small.exp: small is shifted to the exponent of
\* big; a term under half a unit of big changes nothing
AddAligned(big, small, diff) ==
    IF diff > MantissaBits THEN big
    ELSE AddRound(AddLimbs(big.mant, ShiftRightBy(small.mant, diff)), big.exp,
                  LostBits(small.mant, diff))

\* x + y
F64Add(x, y) ==
    IF IsF64Zero(x) THEN y
    ELSE IF IsF64Zero(y) THEN x
    ELSE IF x.exp >= y.exp THEN AddAligned(x, y, x.exp - y.exp)
    ELSE AddAligned(y, x, y.exp - x.exp)

\* f64::from(byte) * x for a byte: the exact product, rounded once
F64TimesU8(byte, x) ==
    IF byte = 0 \/ IsF64Zero(x) THEN F64Zero
    ELSE RoundToF64(TimesSmall(x.mant, byte), x.exp, FALSE)

\* the bits of a quotient that one step of the long division gives, and the
\* steps that give at least MantissaBits + 2 bits
DigitBits == 8
DivDigits == (MantissaBits + 2 + DigitBits - 1) \div DigitBits

\* the digit is right when what is left of the remainder is less than the
\* divisor, else it is one more
DivCorrect(rest, digit, q, left, divisor) ==
    IF LessLimbs(rest, divisor) THEN <<rest, AddLimbs(q, <<0, 0, digit>>), left>>
    ELSE <<SubLimbs(rest, divisor), AddLimbs(q, <<0, 0, digit + 1>>), left>>

\* r is the remainder with the next digit: the high limbs of r and of the
\* divisor give that digit or one less
DivDigit(r, digit, q, left, divisor) ==
    DivCorrect(SubLimbs(r, TimesSmall(divisor, digit)), digit, q, left, divisor)

\* the digit that the high limbs give
DivEstimate(r, q, left, divisor) ==
    DivDigit(r, r[1] \div (divisor[1] + 1), q, left, divisor)

\* one step of the long division: st = <<remainder, quotient, steps to come>>
\* with remainder < divisor
DivStep(st, divisor) ==
    DivEstimate(TimesSmall(st[1], 2 ^ DigitBits), TimesSmall(st[2], 2 ^ DigitBits),
                st[3] - 1, divisor)

RECURSIVE DivSteps(_, _)
DivSteps(st, divisor) ==
    IF st[3] = 0 THEN st ELSE DivSteps(DivStep(st, divisor), divisor)

\* the division starts with the whole part of the quotient, 0 or 1
DivStart(a, b) ==
    IF LessLimbs(a, b) THEN <<a, NoLimbs, DivDigits>>
    ELSE <<SubLimbs(a, b), <<0, 0, 1>>, DivDigits>>

\* the quotient rounded; a remainder says that the quotient is not exact
DivRounded(st, exp) == RoundToF64(st[2], exp, st[1] # NoLimbs)

\* x / y for y > 0: the quotient of the mantissas with DivDigits * DigitBits
\* bits after the point
F64Div(x, y) ==
    IF IsF64Zero(x) THEN F64Zero
    ELSE DivRounded(DivSteps(DivStart(x.mant, y.mant), y.mant),
                    x.exp - y.exp - DivDigits * DigitBits)

\* the next bit of the root is 1 when the remainder holds the trial
SqrtBit(rem, trial, r2, left) ==
    IF LessLimbs(rem, trial) THEN <<rem, r2, left>>
    ELSE <<SubLimbs(rem, trial), AddLimbs(r2, <<0, 0, 1>>), left>>

\* one bit of a square root: st = <<remainder, root, bits to come>>, pair the
\* next two bits of the number
SqrtStep(st, pair) ==
    SqrtBit(AddLimbs(TimesSmall(st[1], 4), <<0, 0, pair>>),
            AddLimbs(TimesSmall(st[2], 4), <<0, 0, 1>>),
            TimesSmall(st[2], 2), st[3] - 1)

\* the bits of the root of nz[1]: its bit pairs from the highest, and nz[2]
\* pairs of zeros below
RECURSIVE SqrtSteps(_, _)
SqrtSteps(st, nz) ==
    IF st[3] = 0 THEN st
    ELSE SqrtSteps(SqrtStep(st, IF st[3] > nz[2]
                                THEN (nz[1] \div 4 ^ (st[3] - nz[2] - 1)) % 4
                                ELSE 0),
                   nz)

\* the root rounded; a remainder says that the root is not exact
SqrtRounded(st, zeros) == RoundToF64(st[2], 0 - zeros, st[1] # NoLimbs)

\* the root of n > 0 from its bit pairs and zeros pairs of zeros
SqrtOfPairs(n, zeros) ==
    SqrtRounded(SqrtSteps(<<NoLimbs, NoLimbs, MantissaBits + 2>>, <<n, zeros>>), zeros)

\* (n as f64).sqrt() for 0 <= n < Limb: MantissaBits + 2 bits of the root
F64SqrtOfInt(n) ==
    IF n = 0 THEN F64Zero
    ELSE SqrtOfPairs(n, MantissaBits + 2 - (BitLen(n) + 1) \div 2)

\* x.round() as u8 for x >= 0: halves go up, values over 255 give 255
F64RoundAsU8(x) ==
    LET top == x.exp + MantissaBits   \* 2^(top-1) <= x < 2^top
    IN IF IsF64Zero(x) \/ top < 0 THEN 0
       ELSE IF top = 0 THEN 1
       ELSE IF top > 8 THEN Byte - 1
       ELSE LET hi == x.mant[1]
                below == HighBits - top   \* bits of hi under the point
                n == hi \div 2 ^ below
                half == IF below = 0 THEN x.mant[2] \div 2 ^ (LimbBits - 1)
                        ELSE (hi \div 2 ^ (below - 1)) % 2
            IN Min(Byte - 1, n + half)

\* distance = ((dx * dx + dy * dy) as f64).sqrt();
\* weight = 1.0 / distance.max(1.0)
weight_of(d2) == F64Div(F64One, F64Max(F64SqrtOfInt(d2), F64One))

\* the pixels of a window are at most WindowSide - 1 columns and rows away
\* from its center when the radius is at most MaxRadius + 1
WindowSide == MaxRadius + 2

\* the weights of the squared distances within such a window, computed once
Weights == [d2 \in 0..(2 * WindowSide * WindowSide) |-> weight_of(d2)]

\* the weight of the squared distance d2, from the table where it holds it
weight_at(table, d2) == IF d2 \in DOMAIN table THEN table[d2] ELSE weight_of(d2)

\* a variant of weight that leaves the pixel itself out of its own average
weight_without_center(dx, dy) ==
    IF dx = 0 /\ dy = 0 THEN F64Zero ELSE weight_at(Weights, dx * dx + dy * dy)

\* the weight of a pixel dx columns and dy rows away
weight(dx, dy) == weight_at(Weights, dx * dx + dy * dy)

\* (sum / total_weight).round() as u8; 0.0 / 0.0 is NaN and NaN as u8 is 0,
\* x / 0.0 is infinite for x > 0 and gives 255
round_as_u8(sum, total_weight) ==
    IF IsF64Zero(total_weight) THEN (IF IsF64Zero(sum) THEN 0 ELSE Byte - 1)
    ELSE F64RoundAsU8(F64Div(sum, total_weight))

\* sum_r, sum_g, sum_b, sum_a and total_weight are kept together
NoSums == <<F64Zero, F64Zero, F64Zero, F64Zero, F64Zero>>
AddSums(a, b) == <<F64Add(a[1], b[1]), F64Add(a[2], b[2]), F64Add(a[3], b[3]),
                   F64Add(a[4], b[4]), F64Add(a[5], b[5])>>

\* f64::from(byte) * weight for every byte
ByteProducts(wt) == [byte \in 0..(Byte - 1) |-> F64TimesU8(byte, wt)]

\* the products for the pixels of a window of radius MaxRadius + 1, computed
\* once: Weighted[dx * WindowSide + dy] for the pixel dx columns and dy rows away
Weighted ==
    [k \in 0..(WindowSide * WindowSide - 1) |->
        ByteProducts(weight(k \div WindowSide, k % WindowSide))]

\* the products with the weight wt of a pixel dx columns and dy rows away
products(dx, dy, wt) ==
    IF dx < WindowSide /\ dy < WindowSide THEN Weighted[dx * WindowSide + dy]
    ELSE ByteProducts(wt)

\* f64::from(data[src]) * weight, ..., f64::from(data[src + 3]) * weight, weight
terms(data, src, times_weight, wt) ==
    <<times_weight[data[src + 1]], times_weight[data[src + 2]],
      times_weight[data[src + 3]], times_weight[data[src + 4]], wt>>

terms_of(data, src, dx, dy, wt) == terms(data, src, products(dx, dy, wt), wt)

\* what the pixel (nx, ny) adds to the sums of the pixel (center_x, center_y)
weighted_pixel(data, w, center_x, center_y, nx, ny) ==
    LET dx == abs_diff(center_x, nx)
        dy == abs_diff(center_y, ny)
    IN terms_of(data, (ny * w + nx) * BYTES_PER_PIXEL, dx, dy, weight(dx, dy))

\* for nx in x_start..x_end { ... }: st = <<nx, the sums so far>>; the sums
\* once the pixels nx .. x_end - 1 of row ny were added, one after the other
RECURSIVE accumulate_row(_, _, _, _, _, _, _)
accumulate_row(data, w, center_x, center_y, x_end, ny, st) ==
    IF st[1] >= x_end THEN st[2]
    ELSE accumulate_row(data, w, center_x, center_y, x_end, ny,
                        <<st[1] + 1,
                          AddSums(st[2], weighted_pixel(data, w, center_x, center_y,
                                                        st[1], ny))>>)

\* for ny in y_start..y_end { ... }: st = <<ny, the sums so far>>; the sums
\* once the rows ny .. y_end - 1 were added
RECURSIVE accumulate_rows(_, _, _, _, _, _, _, _)
accumulate_rows(data, w, center_x, center_y, x_start, x_end, y_end, st) ==
    IF st[1] >= y_end THEN st[2]
    ELSE accumulate_rows(data, w, center_x, center_y, x_start, x_end, y_end,
                         <<st[1] + 1,
                           accumulate_row(data, w, center_x, center_y, x_end, st[1],
                                          <<x_start, st[2]>>)>>)

\* a variant of accumulate_neighborhood whose window ends one pixel later
accumulate_neighborhood_wide(data, w, h, center_x, center_y, radius) ==
    LET y_start == saturating_sub(center_y, radius)
        y_end == Min(center_y + radius + 2, h)
        x_start == saturating_sub(center_x, radius)
        x_end == Min(center_x + radius + 2, w)
    IN accumulate_rows(data, w, center_x, center_y, x_start, x_end, y_end,
                       <<y_start, NoSums>>)

\* a variant of accumulate_neighborhood that divides by the weight of the
\* whole window, the pixels outside the image included (zero padding)
accumulate_neighborhood_padded(data, w, h, center_x, center_y, radius) ==
    LET y_start == saturating_sub(center_y, radius)
        y_end == Min(center_y + radius + 1, h)
        x_start == saturating_sub(center_x, radius)
        x_end == Min(center_x + radius + 1, w)
        a == accumulate_rows(data, w, center_x, center_y, x_start, x_end, y_end,
                             <<y_start, NoSums>>)
        side == 2 * radius + 1
        whole == accumulate_rows(zeroes(side * side * BYTES_PER_PIXEL), side,
                                 radius, radius, 0, side, side, <<0, NoSums>>)
    IN <<a[1], a[2], a[3], a[4], whole[5]>>

\* the sums over the window of (center_x, center_y), clipped to the image
accumulate_neighborhood(data, w, h, center_x, center_y, radius) ==
    LET y_start == saturating_sub(center_y, radius)
        y_end == Min(center_y + radius + 1, h)
        x_start == saturating_sub(center_x, radius)
        x_end == Min(center_x + radius + 1, w)
    IN accumulate_rows(data, w, center_x, center_y, x_start, x_end, y_end,
                       <<y_start, NoSums>>)

\* for nx in x_start..x_end: the pixels (nx, ny) the inner loop visits from nx
\* on, in the order of the visits
RECURSIVE neighborhood_row(_, _, _)
neighborhood_row(x_end, ny, nx) ==
    IF nx >= x_end THEN <<>>
    ELSE <<(<<nx, ny>>)>> \o neighborhood_row(x_end, ny, nx + 1)

\* for ny in y_start..y_end: the pixels the two loops visit from row ny on
RECURSIVE neighborhood_rows(_, _, _, _)
neighborhood_rows(x_start, x_end, y_end, ny) ==
    IF ny >= y_end THEN <<>>
    ELSE neighborhood_row(x_end, ny, x_start)
         \o neighborhood_rows(x_start, x_end, y_end, ny + 1)

\* a variant of the window that is not cut at the right and lower borders
neighborhood_unclipped(w, h, center_x, center_y, radius) ==
    LET y_start == saturating_sub(center_y, radius)
        y_end == center_y + radius + 1
        x_start == saturating_sub(center_x, radius)
        x_end == center_x + radius + 1
    IN neighborhood_rows(x_start, x_end, y_end, y_start)

\* the pixels accumulate_neighborhood visits for (center_x, center_y), in the
\* order of the visits
neighborhood(w, h, center_x, center_y, radius) ==
    LET y_start == saturating_sub(center_y, radius)
        y_end == Min(center_y + radius + 1, h)
        x_start == saturating_sub(center_x, radius)
        x_end == Min(center_x + radius + 1, w)
    IN neighborhood_rows(x_start, x_end, y_end, y_start)

\* the indices of the bytes read for the pixel (nx, ny): data[src], data[src + 1],
\* data[src + 2], data[src + 3]
src_bytes(w, nx, ny) ==
    LET src == (ny * w + nx) * BYTES_PER_PIXEL
    IN src..(src + BYTES_PER_PIXEL - 1)

\* (sr / tw).round() as u8, ..., (sa / tw).round() as u8
rounded(sums) ==
    <<round_as_u8(sums[1], sums[5]), round_as_u8(sums[2], sums[5]),
      round_as_u8(sums[3], sums[5]), round_as_u8(sums[4], sums[5])>>

\* the new value of pixel (x, y): the four bytes written to temp[dst .. dst + 3]
blur_pixel(data, w, h, x, y, radius) ==
    rounded(accumulate_neighborhood(data, w, h, x, y, radius))

\* temp[dst] = ..; temp[dst + 1] = ..; temp[dst + 2] = ..; temp[dst + 3] = ..
write_pixel(temp, dst, px) ==
    [temp EXCEPT ![dst + 1] = px[1], ![dst + 2] = px[2],
                 ![dst + 3] = px[3], ![dst + 4] = px[4]]

\* for x in 0..width { ... }: temp after the pixels of row y were written.
\* temp[dst] is in bounds: temp has as many bytes as data.
RECURSIVE blur_row(_, _, _, _, _, _, _)
blur_row(data, w, h, radius, temp, y, x) ==
    LET dst == (y * w + x) * BYTES_PER_PIXEL
    IN IF x >= w \/ dst + BYTES_PER_PIXEL > Len(temp) THEN temp
       ELSE blur_row(data, w, h, radius,
                     write_pixel(temp, dst, blur_pixel(data, w, h, x, y, radius)),
                     y, x + 1)

\* for y in 0..height { ... }: temp after the two loops
RECURSIVE blur_rows(_, _, _, _, _, _)
blur_rows(data, w, h, radius, temp, y) ==
    IF y >= h \/ (y + 1) * w * BYTES_PER_PIXEL > Len(temp) THEN temp
    ELSE blur_rows(data, w, h, radius, blur_row(data, w, h, radius, temp, y, 0), y + 1)

\* a variant of the pass that has one buffer only: every new value is written
\* to the buffer the later pixels read
RECURSIVE in_place_row(_, _, _, _, _, _)
in_place_row(data, w, h, radius, y, x) ==
    LET dst == (y * w + x) * BYTES_PER_PIXEL
    IN IF x >= w \/ dst + BYTES_PER_PIXEL > Len(data) THEN data
       ELSE in_place_row(write_pixel(data, dst, blur_pixel(data, w, h, x, y, radius)),
                         w, h, radius, y, x + 1)

RECURSIVE in_place_rows(_, _, _, _, _)
in_place_rows(data, w, h, radius, y) ==
    IF y >= h \/ (y + 1) * w * BYTES_PER_PIXEL > Len(data) THEN data
    ELSE in_place_rows(in_place_row(data, w, h, radius, y, 0), w, h, radius, y + 1)

blur_pass_in_place(data, w, h, radius, temp) == in_place_rows(data, w, h, radius, 0)

\* one iteration of weighted_blur: temp once every pixel was written
blur_pass(data, w, h, radius, temp) == blur_rows(data, w, h, radius, temp, 0)

\* a variant of the loop of weighted_blur that runs once whatever the count
blur_iterate_once(data, w, h, radius, iterations, temp) ==
    IF iterations = 0 THEN data ELSE blur_pass(data, w, h, radius, temp)

RECURSIVE blur_iterate(_, _, _, _, _, _)

\* data.copy_from_slice(&temp), temp and data have the same length, and the
\* iterations that follow: temp keeps what the pass wrote
copy_from_slice(data, w, h, radius, iterations, temp) ==
    IF Len(temp) # Len(data) THEN data
    ELSE blur_iterate(temp, w, h, radius, iterations - 1, temp)

\* for _ in 0..iterations { ...; data.copy_from_slice(&temp) }
blur_iterate(data, w, h, radius, iterations, temp) ==
    IF iterations = 0 THEN data
    ELSE copy_from_slice(data, w, h, radius, iterations,
                         blur_pass(data, w, h, radius, temp))

weighted_blur(data, w, h, radius, iterations) ==
    blur_iterate(data, w, h, radius, iterations, zeroes(Len(data)))

\* the byte indices weighted_blur reads or writes: every one once a pass runs
weighted_blur_touched(data, iterations) ==
    IF iterations = 0 THEN {} ELSE 0..(Len(data) - 1)

----------------------------------------------------------------------------
(* blur_plugin: the entry point *)

BlurFields == <<"radius", "iterations">>

\* a variant of the defaults: what #[derive(Default)] would give
BlurDefaultsDerived == <<0, 0>>

\* impl Default for BlurParams
BlurDefaults == <<1, 1>>

BlurParams(v) == [set |-> TRUE, horizontal |-> FALSE, vertical |-> FALSE,
                  radius |-> v[1], iterations |-> v[2]]

\* serde_json::from_str(params_str).unwrap_or_default()
blur_params_or_default(params_str) ==
    LET parsed == from_str(params_str, BlurFields, "u32", BlurDefaults)
    IN BlurParams(IF parsed.ok THEN parsed.v ELSE BlurDefaults)

\* std::slice::from_raw_parts_mut(rgba_data, buf_len): the view of the first
\* buf_len bytes of the memory behind the pointer
from_raw_parts_mut(mem, buf_len) == SubSeq(mem, 1, buf_len)

\* the memory behind the pointer once the view was written: the bytes after
\* the view are outside of it and are what they were
behind_pointer(mem, view) == view \o SubSeq(mem, Len(view) + 1, Len(mem))

\* process_image of blur_plugin: it returns nothing. A caller that passes a
\* non-null buffer and dimensions that pass the checks passes a buffer of at
\* least that many bytes.
blur_process_image(w32, h32, data_ptr, params_ptr) ==
    IF data_ptr.null \/ params_ptr.null THEN Outcome(NoStatus, data_ptr.mem, {}, NoCfg)
    ELSE LET w == filter_positive(usize_try_from(w32))
             h == filter_positive(usize_try_from(h32))
         IN IF ~w.some THEN Outcome(NoStatus, data_ptr.mem, {}, NoCfg)
            ELSE IF ~h.some THEN Outcome(NoStatus, data_ptr.mem, {}, NoCfg)
            ELSE LET buf_len == and_then_mul(checked_mul(w.v, h.v), BYTES_PER_PIXEL)
                 IN IF ~buf_len.some THEN Outcome(NoStatus, data_ptr.mem, {}, NoCfg)
                    ELSE LET data == from_raw_parts_mut(data_ptr.mem, BytesToNat(buf_len.v))
                             params_str == to_str_or_empty(CStr_from_ptr(params_ptr))
                             bp == blur_params_or_default(params_str)
                         IN Outcome(NoStatus,
                                    behind_pointer(data_ptr.mem,
                                        weighted_blur(data, BytesToNat(w.v), BytesToNat(h.v),
                                                      bp.radius, bp.iterations)),
                                    weighted_blur_touched(data, bp.iterations), bp)

----------------------------------------------------------------------------
(* Inputs: images *)

\* w * h pixels of one colour
Uniform(w, h, colour) ==
    [i \in 1..(w * h * BYTES_PER_PIXEL) |-> colour[((i - 1) % BYTES_PER_PIXEL) + 1]]

Black == <<0, 0, 0, 255>>
White == <<255, 255, 255, 255>>
Red == <<255, 0, 0, 255>>
Green == <<0, 255, 0, 255>>
Blue == <<0, 0, 255, 255>>
Grey == <<128, 128, 128, 255>>
Sky == <<100, 150, 200, 255>>
Colours == {Black, White, Grey, Sky}

\* a white pixel at (w / 2, h / 2) of an opaque black image
\* (blur_reduces_contrast, blur_multiple_iterations)
Bright(w, h) ==
    [i \in 1..(w * h * BYTES_PER_PIXEL) |->
        IF (i - 1) % BYTES_PER_PIXEL = 3 THEN 255
        ELSE IF (i - 1) \div BYTES_PER_PIXEL = (h \div 2) * w + w \div 2 THEN 255
        ELSE 0]

\* a pixel of the value bright at (px, py) of an opaque image whose other
\* pixels have the value dark
BrightAt(w, h, px, py, bright, dark) ==
    [i \in 1..(w * h * BYTES_PER_PIXEL) |->
        IF (i - 1) % BYTES_PER_PIXEL = 3 THEN 255
        ELSE IF (i - 1) \div BYTES_PER_PIXEL = py * w + px THEN bright
        ELSE dark]

\* create_test_image: red in the top-left quadrant, blue elsewhere
Quadrant(w, h) ==
    [i \in 1..(w * h * BYTES_PER_PIXEL) |->
        LET p == (i - 1) \div BYTES_PER_PIXEL
            c == ((i - 1) % BYTES_PER_PIXEL) + 1
        IN IF p % w < w \div 2 /\ p \div w < h \div 2 THEN Red[c] ELSE Blue[c]]

\* every byte different from every other: 1, 4, 7, ...
Ramp(w, h) == [i \in 1..(w * h * BYTES_PER_PIXEL) |-> (3 * (i - 1) + 1) % Byte]

\* make_2x2: red, green, blue, white
make_2x2 == Red \o Green \o Blue \o White

Dims == 1..MaxDim
OddDims == {d \in 1..MaxBrightDim : d % 2 = 1}

----------------------------------------------------------------------------
(* Inputs: parameter texts *)

Num(n) == UInt(U32(n))
\* "key": value, for a value of one lexeme and for a value of several
Member(key, value) == <<Str(key), Colon, value>>
MemberOf(key, value) == <<Str(key), Colon>> \o value
Object1(m1) == <<LBrace>> \o m1 \o <<RBrace>>
Object2(m1, m2) == <<LBrace>> \o m1 \o <<Comma>> \o m2 \o <<RBrace>>

\* Each text below is listed with what serde_json makes of it, independently
\* of from_str above: the pairs <<text, <<field 1, field 2>>>> of the texts
\* that decode, and the texts that do not.

\* texts about the mirror fields, with the <<horizontal, vertical>> they decode to
MirrorTexts ==
    { <<<<LBrace, RBrace>>, <<FALSE, FALSE>>>>,
      <<Object1(Member("horizontal", JTrue)), <<TRUE, FALSE>>>>,
      <<Object1(Member("vertical", JTrue)), <<FALSE, TRUE>>>>,
      <<Object2(Member("horizontal", JTrue), Member("vertical", JTrue)), <<TRUE, TRUE>>>>,
      <<Object2(Member("vertical", JTrue), Member("horizontal", JFalse)), <<FALSE, TRUE>>>>,
      <<Object2(Member("mode", Str("fast")), Member("horizontal", JTrue)), <<TRUE, FALSE>>>>,
      <<Object2(MemberOf("extra", <<LBrace, Str("a"), Colon, LBrack, Num(1), Comma,
                                   JNull, RBrack, RBrace>>),
                Member("vertical", JTrue)), <<FALSE, TRUE>>>>,
      <<<<LBrack, JTrue, Comma, JFalse, RBrack>>, <<TRUE, FALSE>>>>,
      \* the C string ends at the NUL
      <<Object1(Member("horizontal", JTrue)) \o <<Nul, Junk>>, <<TRUE, FALSE>>>> }

\* JSON objects whose mirror fields do not decode
MirrorWrongFields ==
    { Object1(Member("horizontal", Num(1))),
      Object2(Member("horizontal", Str("yes")), Member("vertical", JTrue)),
      Object2(Member("vertical", JTrue), Member("horizontal", JNull)),
      Object2(Member("horizontal", JTrue), Member("horizontal", JTrue)) }

\* texts about the blur fields, with the <<radius, iterations>> they decode to
BlurTexts ==
    { <<<<LBrace, RBrace>>, <<1, 1>>>>,
      <<Object2(Member("radius", Num(1)), Member("iterations", Num(1))), <<1, 1>>>>,
      <<Object1(Member("radius", Num(2))), <<2, 1>>>>,
      <<Object1(Member("iterations", Num(3))), <<1, 3>>>>,
      <<Object2(Member("radius", Num(0)), Member("iterations", Num(2))), <<0, 2>>>>,
      <<Object2(Member("iterations", Num(0)), Member("radius", Num(2))), <<2, 0>>>>,
      <<Object2(Member("horizontal", JTrue), Member("radius", Num(2))), <<2, 1>>>>,
      <<<<LBrack, Num(2), Comma, Num(2), RBrack>>, <<2, 2>>>> }

\* JSON objects whose blur fields do not decode: a field of the wrong type,
\* a negative number, a fraction, a number out of the range of u32, a field twice
BlurWrongFields ==
    { Object2(Member("radius", Num(2)), Member("iterations", Str("3"))),
      Object2(Member("radius", JTrue), Member("iterations", Num(3))),
      Object2(Member("radius", Num(2)), Member("iterations", NegInt(U32(1)))),
      Object2(Member("radius", Float(U32(2))), Member("iterations", Num(2))),
      Object2(Member("iterations", Num(2)), Member("radius", UInt(<<0, 0, 0, 0, 1>>))),
      Object2(Member("radius", Num(2)), Member("radius", Num(2))) }

\* texts that are no JSON object or array of the right length: empty, not
\* UTF-8, not JSON, cut short, followed by more text
NotStructTexts ==
    { <<>>,
      <<Junk>>,
      <<BadUtf8>>,
      Object1(MemberOf("horizontal", <<Str("caf"), BadUtf8>>)),
      Object1(Member("radius", Num(2))) \o <<BadUtf8>>,
      <<JTrue>>,
      <<LBrace, Str("horizontal"), Colon, JTrue>>,
      <<LBrace, Str("radius"), Colon, Num(2)>>,
      <<LBrace, Str("horizontal"), Colon, JTrue, Comma, RBrace>>,
      Object1(Member("horizontal", JTrue)) \o <<Junk>>,
      Object1(Member("radius", Num(2))) \o <<Junk>>,
      Object1(MemberOf("extra", <<LBrack, Num(1), Comma, RBrack>>)),
      <<LBrack, JTrue, Comma, JFalse, Comma, JTrue, RBrack>>,
      <<LBrack, Num(2), Comma, NegInt(U32(2)), RBrack>> }

IsObject(t) == t # <<>> /\ t[1] = LBrace

\* the texts a module may be given
ParamTexts ==
    {c[1] : c \in MirrorTexts} \cup {c[1] : c \in BlurTexts}
    \cup MirrorWrongFields \cup BlurWrongFields \cup NotStructTexts

\* What each text decodes to as a MirrorParams: a JSON object about other
\* fields only decodes to the defaults.
MirrorDecoded ==
    MirrorTexts
    \cup {<<c[1], <<FALSE, FALSE>>>> :
            c \in {c \in BlurTexts : IsObject(c[1]) /\ c[1] # <<LBrace, RBrace>>
                                     /\ Str("horizontal") \notin {c[1][i] : i \in 1..Len(c[1])}}}
    \cup {<<Object2(Member("horizontal", JTrue), Member("radius", Num(2))), <<TRUE, FALSE>>>>}
    \cup {<<t, <<FALSE, FALSE>>>> : t \in BlurWrongFields}
MirrorUndecodable == ParamTexts \ {c[1] : c \in MirrorDecoded}

\* What each text decodes to as a BlurParams
BlurDecoded ==
    BlurTexts
    \cup {<<c[1], <<1, 1>>>> :
            c \in {c \in MirrorTexts : IsObject(c[1]) /\ c[1] # <<LBrace, RBrace>>}}
    \cup {<<t, <<1, 1>>>> : t \in MirrorWrongFields}
BlurUndecodable == ParamTexts \ {c[1] : c \in BlurDecoded}

----------------------------------------------------------------------------
(* Direct calls of the entry points through the C ABI *)

Modules == {"mirror_plugin", "blur_plugin"}

\* 2^31 and 2^32 - 1: with them width * height * 4 does not fit in a usize
HugeDims == {<<0, 0, 0, 128>>, <<255, 255, 255, 255>>}
DimValues == {U32(n) : n \in 0..MaxDim} \cup HugeDims

IsSmallDim(d) == d \in {U32(n) : n \in 1..MaxDim}

buf_len_of(w32, h32) ==
    and_then_mul(checked_mul(usize_try_from(w32).v, usize_try_from(h32).v),
                 BYTES_PER_PIXEL)

\* The buffers a caller may pass with these dimensions: none (a null
\* pointer); w * h * 4 bytes, or memory that goes on after them, when the
\* dimensions are those of an image; any memory when the dimensions are
\* those of no image.
CallBuffers(w32, h32) ==
    {Null} \cup
    IF IsSmallDim(w32) /\ IsSmallDim(h32)
    THEN {Ptr(Quadrant(w32[1], h32[1])), Ptr(Ramp(w32[1], h32[1])),
          Ptr(Ramp(w32[1], h32[1]) \o Sky \o Grey)}
    ELSE IF IsZero(w32) \/ IsZero(h32) \/ ~buf_len_of(w32, h32).some
    THEN {Ptr(Ramp(1, 1))}
    ELSE {}

CallParams == {Null} \cup {Ptr(t) : t \in ParamTexts}

entry_point(m, w32, h32, data_ptr, params_ptr) ==
    IF m = "mirror_plugin" THEN mirror_process_image(w32, h32, data_ptr, params_ptr)
    ELSE blur_process_image(w32, h32, data_ptr, params_ptr)

InitCall ==
    /\ pc = "call"
    /\ plugin \in Modules
    /\ width \in DimValues
    /\ height \in DimValues
    /\ rgba_data \in CallBuffers(width, height)
    /\ params \in CallParams
    /\ status = NoStatus
    /\ orig = rgba_data.mem
    /\ touched = {}
    /\ cfg = NoCfg
    /\ hist = <<>>
    /\ err = "none"
    /\ output = Null
    /\ calls = 0

\* one call of process_image, from entry to return
Call(m) ==
    /\ pc = "call"
    /\ plugin = m
    /\ LET out == entry_point(m, width, height, rgba_data, params)
       IN /\ rgba_data' = [rgba_data EXCEPT !.mem = out.data]
          /\ status' = out.status
          /\ touched' = out.touched
          /\ cfg' = out.cfg
    /\ pc' = "returned"
    /\ calls' = calls + 1
    /\ UNCHANGED <<plugin, width, height, params, orig, hist, err, output>>

MirrorCall == Call("mirror_plugin")
BlurCall == Call("blur_plugin")

NextCall == MirrorCall \/ BlurCall

SpecCall == InitCall /\ [][NextCall]_vars

----------------------------------------------------------------------------
(* The flips applied to images, one after the other *)

FlipImages(w, h) ==
    {Ramp(w, h), Quadrant(w, h)} \cup (IF w = 2 /\ h = 2 THEN {make_2x2} ELSE {})

InitFlip ==
    /\ pc = "flip"
    /\ plugin = "mirror_plugin"
    /\ \E w \in Dims, h \in Dims :
          /\ width = U32(w)
          /\ height = U32(h)
          /\ \E img \in FlipImages(w, h) : rgba_data = Ptr(img)
    /\ params = Null
    /\ status = NoStatus
    /\ orig = rgba_data.mem
    /\ touched = {}
    /\ cfg = NoCfg
    /\ hist = <<>>
    /\ err = "none"
    /\ output = Null
    /\ calls = 0

FlipHorizontal ==
    /\ pc = "flip"
    /\ Len(hist) < MaxOps
    /\ rgba_data' = Ptr(flip_horizontal(rgba_data.mem, BytesToNat(width), BytesToNat(height)))
    /\ touched' = flip_horizontal_touched(BytesToNat(width), BytesToNat(height))
    /\ hist' = Append(hist, "H")
    /\ UNCHANGED <<pc, plugin, width, height, params, status, orig, cfg, err, output, calls>>

FlipVertical ==
    /\ pc = "flip"
    /\ Len(hist) < MaxOps
    /\ rgba_data' = Ptr(flip_vertical(rgba_data.mem, BytesToNat(width), BytesToNat(height)))
    /\ touched' = flip_vertical_touched(BytesToNat(width), BytesToNat(height))
    /\ hist' = Append(hist, "V")
    /\ UNCHANGED <<pc, plugin, width, height, params, status, orig, cfg, err, output, calls>>

NextFlip == FlipHorizontal \/ FlipVertical

SpecFlip == InitFlip /\ [][NextFlip]_vars

----------------------------------------------------------------------------
(* weighted_blur applied to images, pass by pass *)

BlurImages ==
    {<<w, h, Uniform(w, h, c)>> : w \in Dims, h \in Dims, c \in Colours}
    \cup {<<w, h, Quadrant(w, h)>> : w \in Dims, h \in Dims}
    \cup {<<w, h, Ramp(w, h)>> : w \in Dims, h \in Dims}
    \cup {<<w, h, Bright(w, h)>> : w \in OddDims, h \in OddDims}

\* weighted_blur(data, width, height, radius, iterations) is entered:
\* let mut temp = vec![0u8; data.len()]
InitBlur ==
    /\ pc = "blur"
    /\ plugin = "blur_plugin"
    /\ \E img \in BlurImages :
          /\ width = U32(img[1])
          /\ height = U32(img[2])
          /\ rgba_data = Ptr(img[3])
    /\ \E r \in 0..MaxRadius, n \in 0..MaxIter : cfg = BlurParams(<<r, n>>)
    /\ params = Null
    /\ status = NoStatus
    /\ orig = rgba_data.mem
    /\ touched = {}
    /\ hist = <<>>
    /\ err = "none"
    /\ output = Null
    /\ calls = 0

\* one iteration of the loop of weighted_blur
BlurPass ==
    /\ pc = "blur"
    /\ Len(hist) < cfg.iterations
    /\ rgba_data' = Ptr(blur_pass(rgba_data.mem, BytesToNat(width), BytesToNat(height),
                                  cfg.radius, zeroes(Len(rgba_data.mem))))
    /\ touched' = 0..(Len(rgba_data.mem) - 1)
    /\ hist' = Append(hist, "pass")
    /\ UNCHANGED <<pc, plugin, width, height, params, status, orig, cfg, err, output, calls>>

\* the loop ends and weighted_blur returns
BlurReturn ==
    /\ pc = "blur"
    /\ Len(hist) = cfg.iterations
    /\ pc' = "blur_done"
    /\ UNCHANGED <<plugin, width, height, rgba_data, params, status, orig, touched,
                   cfg, hist, err, output, calls>>

NextBlur == BlurPass \/ BlurReturn

SpecBlur == InitBlur /\ [][NextBlur]_vars

----------------------------------------------------------------------------
(* weighted_blur applied to images of one bright pixel, pass by pass *)

\* the pixels of a side that are at least margin pixels away from both ends
Inner(side, margin) == margin..(side - 1 - margin)

\* a white pixel at every place of the black images of up to MaxDim x MaxDim
\* and at every place at least 2 pixels away from the borders of the black
\* images of up to MaxBrightSide x MaxBrightSide, a white pixel next to the
\* corner of a larger image, and a pixel of 102 on a background of 17
BrightImages ==
    {<<w, h, BrightAt(w, h, px, py, 255, 0)>> :
        <<w, h, px, py>> \in {q \in Dims \X Dims \X (0..(MaxDim - 1)) \X (0..(MaxDim - 1)) :
                                 q[3] < q[1] /\ q[4] < q[2]}}
    \cup {<<w, h, BrightAt(w, h, px, py, 255, 0)>> :
            <<w, h, px, py>> \in {q \in (1..MaxBrightSide) \X (1..MaxBrightSide)
                                        \X (0..(MaxBrightSide - 1)) \X (0..(MaxBrightSide - 1)) :
                                     q[3] \in Inner(q[1], 2) /\ q[4] \in Inner(q[2], 2)}}
    \cup {<<MaxBrightDim, MaxBrightDim, BrightAt(MaxBrightDim, MaxBrightDim, 1, 1, 255, 0)>>,
          <<6, 5, BrightAt(6, 5, 2, 2, 102, 17)>>}

\* weighted_blur(data, width, height, radius, MaxPasses) is entered
InitBright ==
    /\ pc = "blur"
    /\ plugin = "blur_plugin"
    /\ \E img \in BrightImages :
          /\ width = U32(img[1])
          /\ height = U32(img[2])
          /\ rgba_data = Ptr(img[3])
    /\ \E r \in 1..MaxRadius : cfg = BlurParams(<<r, MaxPasses>>)
    /\ params = Null
    /\ status = NoStatus
    /\ orig = rgba_data.mem
    /\ touched = {}
    /\ hist = <<>>
    /\ err = "none"
    /\ output = Null
    /\ calls = 0

SpecBright == InitBright /\ [][NextBlur]_vars

----------------------------------------------------------------------------
(* image_processor: PluginLoader and run() *)

\* the files of the plugin directory and whether each exports process_image
NoFile == [exists |-> FALSE, exports |-> FALSE]
PluginDir(name) ==
    IF name \in Modules THEN [exists |-> TRUE, exports |-> TRUE]
    ELSE IF name = "no_symbol_plugin" THEN [exists |-> TRUE, exports |-> FALSE]
    ELSE NoFile

PluginNames == Modules \cup {"no_symbol_plugin", "nonexistent_plugin"}

\* a variant of load that opens the library and does not bind process_image
load_without_binding(name) ==
    IF ~PluginDir(name).exists THEN "PluginLoad" ELSE "none"

\* PluginLoader::load: Library::new, then library.get(b"process_image")
load(name) ==
    LET lib == PluginDir(name)
    IN IF ~lib.exists THEN "PluginLoad"
       ELSE IF ~lib.exports THEN "SymbolLoad"
       ELSE "none"

\* PluginLoader::process_image: the parameters become a C string and the
\* entry point is called with the dimensions, the buffer and the string.
\* ProcessImageFn has no return value and process_image returns (): what
\* the module returned does not reach run(), which gets no error from here.
loader_process_image(name, w32, h32, data, text) ==
    LET params_cstring == CString_new_or_default(text)
    IN [module |-> entry_point(name, w32, h32, Ptr(data), Ptr(params_cstring)),
        error |-> "none"]

\* fs::read_to_string: fails when the file is missing or is not UTF-8
read_to_string(file) ==
    IF ~file.exists \/ Find(file.text, "badutf8", 1) <= Len(file.text) THEN Err
    ELSE Ok(file.text)

ParamFiles == {[exists |-> FALSE, text |-> <<>>]}
              \cup {[exists |-> TRUE, text |-> t] : t \in ParamTexts}

\* the bytes of a pixel in the layouts of the decoded images: grey, RGB and
\* RGBA with one byte per channel
Layouts == {"L8", "Rgb8", "Rgba8"}
channel_count(layout) ==
    IF layout = "L8" THEN 1 ELSE IF layout = "Rgb8" THEN 3 ELSE BYTES_PER_PIXEL

\* a DynamicImage: its dimensions, its layout, and width * height pixels
DynamicImage(w, h, layout, bytes) ==
    [width |-> w, height |-> h, layout |-> layout, bytes |-> bytes]

\* what image::open gives for the input files
DecodedImages ==
    {DynamicImage(w, h, "Rgba8", Quadrant(w, h)) : w \in Dims, h \in Dims}
    \cup {DynamicImage(w, h, layout, SubSeq(Ramp(w, h), 1, w * h * channel_count(layout))) :
              w \in Dims, h \in Dims, layout \in Layouts}

\* img.dimensions()
dimensions(img) == <<img.width, img.height>>

\* a pixel of the image as red, green, blue, alpha: grey is repeated, and an
\* image without alpha is opaque
to_rgba(img, p) ==
    LET at == p * channel_count(img.layout)
    IN IF img.layout = "L8"
       THEN <<img.bytes[at + 1], img.bytes[at + 1], img.bytes[at + 1], Byte - 1>>
       ELSE IF img.layout = "Rgb8"
       THEN <<img.bytes[at + 1], img.bytes[at + 2], img.bytes[at + 3], Byte - 1>>
       ELSE SubSeq(img.bytes, at + 1, at + BYTES_PER_PIXEL)

\* img.into_rgba8(): the pixels of the image, one after the other, as RGBA
into_rgba8(img) ==
    LET pixels == Len(img.bytes) \div channel_count(img.layout)
    IN [i \in 1..(pixels * BYTES_PER_PIXEL) |->
           to_rgba(img, (i - 1) \div BYTES_PER_PIXEL)[((i - 1) % BYTES_PER_PIXEL) + 1]]

InitRun ==
    /\ pc = "start"
    /\ plugin \in PluginNames
    /\ width = U32(0)
    /\ height = U32(0)
    /\ rgba_data = Null
    /\ params = Null
    /\ status = NoStatus
    /\ orig = <<>>
    /\ touched = {}
    /\ cfg = NoCfg
    /\ hist = <<>>
    /\ err = "none"
    /\ output = Null
    /\ calls = 0

\* run() returned Err(e): main prints it and exits with code 1
Fail(e) ==
    /\ err' = e
    /\ pc' = "failed"

\* let params = fs::read_to_string(&args.params).map_err(..)?
ReadParams ==
    /\ pc = "start"
    /\ \E file \in ParamFiles :
          LET r == read_to_string(file)
          IN IF r.ok
             THEN /\ params' = Ptr(r.v)
                  /\ pc' = "params_read"
                  /\ err' = err
             ELSE /\ Fail("Io")
                  /\ params' = params
    /\ UNCHANGED <<plugin, width, height, rgba_data, status, orig, touched, cfg,
                   hist, output, calls>>

\* a variant of run() that takes the bytes of the decoded image as they are
\* (img.as_bytes()) for the buffer, without the conversion to RGBA
OpenImageAsBytes ==
    /\ pc = "params_read"
    /\ \/ \E img \in DecodedImages :
             /\ width' = U32(dimensions(img)[1])
             /\ height' = U32(dimensions(img)[2])
             /\ rgba_data' = Ptr(img.bytes)
             /\ orig' = img.bytes
             /\ pc' = "image_open"
             /\ err' = err
       \/ /\ Fail("ImageLoad")
          /\ UNCHANGED <<width, height, rgba_data, orig>>
    /\ UNCHANGED <<plugin, params, status, touched, cfg, hist, output, calls>>

\* let img = image::open(&args.input).map_err(..)?;
\* let (width, height) = img.dimensions(); let mut rgba_image = img.into_rgba8();
\* let rgba_data = rgba_image.as_mut()
OpenImage ==
    /\ pc = "params_read"
    /\ \/ \E img \in DecodedImages :
             /\ width' = U32(dimensions(img)[1])
             /\ height' = U32(dimensions(img)[2])
             /\ rgba_data' = Ptr(into_rgba8(img))
             /\ orig' = into_rgba8(img)
             /\ pc' = "image_open"
             /\ err' = err
       \/ /\ Fail("ImageLoad")
          /\ UNCHANGED <<width, height, rgba_data, orig>>
    /\ UNCHANGED <<plugin, params, status, touched, cfg, hist, output, calls>>

\* let loader = PluginLoader::load(&args.plugin, &args.plugin_path)?
Load ==
    /\ pc = "image_open"
    /\ LET e == load(plugin)
       IN IF e = "none"
          THEN /\ pc' = "loaded"
               /\ err' = err
          ELSE Fail(e)
    /\ UNCHANGED <<plugin, width, height, rgba_data, params, status, orig, touched,
                   cfg, hist, output, calls>>

\* loader.process_image(width, height, rgba_data, &params)?: the module has
\* run on the buffer; an error of the loader would leave run() here, before
\* the image is saved, and the loader has none to give
ProcessImage ==
    /\ pc = "loaded"
    /\ LET done == loader_process_image(plugin, width, height, rgba_data.mem, params.mem)
       IN /\ rgba_data' = Ptr(done.module.data)
          /\ status' = done.module.status
          /\ touched' = done.module.touched
          /\ cfg' = done.module.cfg
          /\ IF done.error = "none"
             THEN /\ pc' = "processed"
                  /\ err' = err
             ELSE Fail(done.error)
    /\ calls' = calls + 1
    /\ UNCHANGED <<plugin, width, height, params, orig, hist, output>>

\* rgba_image.save(&args.output).map_err(..)?; Ok(())
Save ==
    /\ pc = "processed"
    /\ \/ /\ output' = rgba_data
          /\ pc' = "saved"
          /\ err' = err
       \/ /\ Fail("ImageSave")
          /\ output' = output
    /\ UNCHANGED <<plugin, width, height, rgba_data, params, status, orig, touched,
                   cfg, hist, calls>>

\* the exit code of the process once run() returned
ExitCode == IF pc = "failed" THEN 1 ELSE 0

Next == ReadParams \/ OpenImage \/ Load \/ ProcessImage \/ Save

Spec == InitRun /\ [][Next]_vars

----------------------------------------------------------------------------
(* Properties of a call of process_image (SpecCall) *)

\* the call passed a null pointer, a zero dimension, or dimensions whose
\* product times 4 does not fit in a usize
NullPassed == rgba_data.null \/ params.null
ZeroDim == width = <<0, 0, 0, 0>> \/ height = <<0, 0, 0, 0>>
Overflows == width \in HugeDims /\ height \in HugeDims

\* C1: a call that fails validation is a no-op on the buffer: when
\* mirror_plugin returns a non-zero status the buffer is byte for byte what it
\* was, and when blur_plugin is given a null pointer, a zero dimension or an
\* overflowing size the buffer is unchanged and no byte of it is accessed.
C1_FailedValidationIsNoOp ==
    pc = "returned" =>
        /\ (plugin = "mirror_plugin" /\ status.code # 0) => rgba_data.mem = orig
        /\ (plugin = "blur_plugin" /\ (NullPassed \/ ZeroDim \/ Overflows)) =>
               rgba_data.mem = orig /\ touched = {}

\* mirror_plugin refused a 2x2 image for its parameters, which name a flip
\* and are followed by text that is no JSON
C1_Witness ==
    /\ pc = "returned"
    /\ plugin = "mirror_plugin"
    /\ status = Returned(4)
    /\ width = U32(2) /\ height = U32(2)
    /\ orig = Quadrant(2, 2)
    /\ params.mem = Object1(Member("horizontal", JTrue)) \o <<Junk>>

\* the status the checks of mirror_plugin give in their documented order
ExpectedStatus ==
    IF NullPassed THEN 1
    ELSE IF ZeroDim THEN 2
    ELSE IF Overflows THEN 3
    ELSE IF params.mem \in MirrorUndecodable THEN 4
    ELSE 0

\* C2: mirror_plugin checks its arguments in a fixed order and returns the
\* status of the first check that fails: 1 for a null pointer, 2 for a zero
\* dimension, 3 for a size that overflows, 4 for parameters that do not
\* decode, and 0 when every check passes.
C2_StatusOfFirstFailedCheck ==
    (pc = "returned" /\ plugin = "mirror_plugin") => status = Returned(ExpectedStatus)

\* a null buffer together with a zero width and parameters that do not
\* decode: three checks would fail, the first one decides
C2_Witness ==
    /\ pc = "returned"
    /\ plugin = "mirror_plugin"
    /\ rgba_data.null
    /\ width = U32(0)
    /\ params.mem = <<Junk>>
    /\ status = Returned(1)

\* the width * height * 4 bytes of the image in the memory the caller
\* passed, and the bytes of that memory after them
ImageBytes(mem) ==
    SubSeq(mem, 1, BytesToNat(width) * BytesToNat(height) * BYTES_PER_PIXEL)
BytesAfterImage(mem) ==
    SubSeq(mem, BytesToNat(width) * BytesToNat(height) * BYTES_PER_PIXEL + 1, Len(mem))

\* C4: when the parameters of blur_plugin do not decode, whatever the reason,
\* the whole document is replaced by radius 1 and iterations 1, the fields
\* that were well formed included, and the blur is applied with them to the
\* width * height * 4 bytes of the image.
C4_WholeDocumentFallback ==
    (/\ pc = "returned"
     /\ plugin = "blur_plugin"
     /\ ~(NullPassed \/ ZeroDim \/ Overflows)
     /\ params.mem \in BlurUndecodable) =>
        /\ cfg.set /\ cfg.radius = 1 /\ cfg.iterations = 1
        /\ ImageBytes(rgba_data.mem) =
               weighted_blur(ImageBytes(orig), BytesToNat(width), BytesToNat(height), 1, 1)
        /\ BytesAfterImage(rgba_data.mem) = BytesAfterImage(orig)
        /\ touched = 0..(Len(ImageBytes(orig)) - 1)

\* radius 2 is well formed and iterations -1 is not: the 3x3 image, at the
\* start of a memory of two more pixels, was blurred with radius 1, which
\* differs from the blur with radius 2, and the two pixels are as they were
C4_Witness ==
    /\ pc = "returned"
    /\ plugin = "blur_plugin"
    /\ params.mem = Object2(Member("radius", Num(2)), Member("iterations", NegInt(U32(1))))
    /\ orig = Ramp(3, 3) \o Sky \o Grey
    /\ cfg.radius = 1 /\ cfg.iterations = 1
    /\ ImageBytes(rgba_data.mem) # ImageBytes(orig)
    /\ ImageBytes(rgba_data.mem) = weighted_blur(Ramp(3, 3), 3, 3, 1, 1)
    /\ ImageBytes(rgba_data.mem) # weighted_blur(Ramp(3, 3), 3, 3, 2, 1)
    /\ BytesAfterImage(rgba_data.mem) = Sky \o Grey

----------------------------------------------------------------------------
(* Properties of a run of image_processor (Spec) *)

\* run() returned: the image was saved, or a step failed
RunEnded == pc \in {"saved", "failed"}

\* C3: a non-zero status of the module makes the run of the host fail: no
\* output image is written and the process exits with a failing code, so
\* mirror_plugin with parameters that do not decode never produces an output.
C3_NonZeroStatusFailsRun ==
    (RunEnded /\ status.returned /\ status.code # 0) =>
        (pc = "failed" /\ output.null /\ ExitCode # 0)

----------------------------------------------------------------------------
(* Properties of the flips (SpecFlip) *)

\* the pixel at column x of row y, both 0-based
PixelAt(data, w, x, y) ==
    SubSeq(data, (y * w + x) * BYTES_PER_PIXEL + 1, (y * w + x + 1) * BYTES_PER_PIXEL)

Columns == 0..(BytesToNat(width) - 1)
Rows == 0..(BytesToNat(height) - 1)

\* C5: flip_horizontal moves the pixel at column x of every row to column
\* width - 1 - x, and flip_vertical moves the pixel at row y of every column
\* to row height - 1 - y; the center column of an odd width and the center
\* row of an odd height keep their pixels.
C5_FlipMapping ==
    LET w == BytesToNat(width)
        h == BytesToNat(height)
    IN /\ hist = <<"H">> =>
            /\ \A x \in Columns, y \in Rows :
                  PixelAt(rgba_data.mem, w, w - 1 - x, y) = PixelAt(orig, w, x, y)
            /\ w % 2 = 1 => \A y \in Rows :
                  PixelAt(rgba_data.mem, w, w \div 2, y) = PixelAt(orig, w, w \div 2, y)
       /\ hist = <<"V">> =>
            /\ \A x \in Columns, y \in Rows :
                  PixelAt(rgba_data.mem, w, x, h - 1 - y) = PixelAt(orig, w, x, y)
            /\ h % 2 = 1 => \A x \in Columns :
                  PixelAt(rgba_data.mem, w, x, h \div 2) = PixelAt(orig, w, x, h \div 2)

\* a 3x2 image of distinct bytes was flipped horizontally: the outer columns
\* changed places
C5_Witness ==
    /\ hist = <<"H">>
    /\ width = U32(3) /\ height = U32(2)
    /\ orig = Ramp(3, 2)
    /\ PixelAt(rgba_data.mem, 3, 0, 1) = PixelAt(orig, 3, 2, 1)
    /\ rgba_data.mem # orig

\* C6: each flip is an involution: the same flip applied twice gives back
\* the original buffer.
C6_FlipInvolution ==
    hist \in {<<"H", "H">>, <<"V", "V">>} => rgba_data.mem = orig

\* a 2x3 image of distinct bytes was flipped vertically twice, and one flip
\* of it is not the identity
C6_Witness ==
    /\ hist = <<"V", "V">>
    /\ orig = Ramp(2, 3)
    /\ flip_vertical(orig, 2, 3) # orig
    /\ rgba_data.mem = orig

\* the image rotated by 180 degrees: the pixel (x, y) comes from
\* (w - 1 - x, h - 1 - y), that is the pixels in reverse order
Rotate180(data) ==
    LET n == Len(data) \div BYTES_PER_PIXEL
    IN [i \in 1..Len(data) |->
           data[(n - 1 - (i - 1) \div BYTES_PER_PIXEL) * BYTES_PER_PIXEL
                + ((i - 1) % BYTES_PER_PIXEL) + 1]]

\* C7: the two flips commute, and applying both in either order rotates the
\* image by 180 degrees: the 2x2 image red, green, blue, white becomes
\* white, blue, green, red.
C7_FlipsCommute ==
    hist \in {<<"H", "V">>, <<"V", "H">>} =>
        /\ rgba_data.mem = Rotate180(orig)
        /\ orig = make_2x2 => rgba_data.mem = White \o Blue \o Green \o Red

\* the 2x2 image of the four colours after a horizontal and a vertical flip
C7_Witness ==
    /\ hist = <<"H", "V">>
    /\ orig = Red \o Green \o Blue \o White
    /\ rgba_data.mem = White \o Blue \o Green \o Red

----------------------------------------------------------------------------
(* Properties of weighted_blur (SpecBlur) *)

\* C8: with radius 0 the blur is the identity, whatever the number of
\* iterations (at least 1): after every pass the buffer is the original.
C8_RadiusZeroIsIdentity ==
    (cfg.radius = 0 /\ Len(hist) >= 1) => rgba_data.mem = orig

\* three passes with radius 0 over a 3x3 image of distinct bytes
C8_Witness ==
    /\ pc = "blur_done"
    /\ cfg.radius = 0 /\ cfg.iterations = 3
    /\ hist = <<"pass", "pass", "pass">>
    /\ orig = Ramp(3, 3)
    /\ rgba_data.mem = orig

\* every pixel of the image has the four bytes of the first one
IsUniform(data) ==
    \A i \in 1..Len(data) : data[i] = data[((i - 1) % BYTES_PER_PIXEL) + 1]

\* C9: an image whose pixels are all equal is a fixed point of the blur, for
\* every radius and number of iterations; this includes the 1x1 image.
C9_UniformIsFixedPoint ==
    IsUniform(orig) => rgba_data.mem = orig

\* three passes with radius 2 over a 3x3 image of one colour, where every
\* window is clipped by the border
C9_Witness ==
    /\ pc = "blur_done"
    /\ cfg.radius = 2 /\ cfg.iterations = 3
    /\ hist = <<"pass", "pass", "pass">>
    /\ orig = Uniform(3, 3, Sky)
    /\ rgba_data.mem = orig

\* the red byte of the pixel in the center of the image
CenterOf(data, w, h) == data[((h \div 2) * w + w \div 2) * BYTES_PER_PIXEL + 1]

\* weighted_blur ran 3 iterations with radius 1 over a white pixel in the
\* center of a black image of odd width and height, the longer of them at
\* least least
BrightBlurredThrice(least) ==
    /\ pc = "blur_done"
    /\ cfg.radius = 1 /\ cfg.iterations = 3
    /\ BytesToNat(width) % 2 = 1
    /\ BytesToNat(height) % 2 = 1
    /\ BytesToNat(width) >= least \/ BytesToNat(height) >= least
    /\ orig = Bright(BytesToNat(width), BytesToNat(height))

\* the center after the 3 iterations is strictly darker than after 1, and
\* the 3 iterations are those of weighted_blur called with iterations = 3
CenterDarkerThanAfterOnePass ==
    LET w == BytesToNat(width)
        h == BytesToNat(height)
    IN /\ rgba_data.mem = weighted_blur(orig, w, h, 1, 3)
       /\ CenterOf(rgba_data.mem, w, h) < CenterOf(weighted_blur(orig, w, h, 1, 1), w, h)

\* C10 as stated: for a single bright pixel centered in an otherwise dark
\* image of odd width and height, 3x3 included, the center after 3
\* iterations with radius 1 is strictly below the center after 1 iteration.
C10_MoreIterationsDarkerCenter ==
    BrightBlurredThrice(1) => CenterDarkerThanAfterOnePass

\* C10, for images with a side of at least 5: for a white pixel centered in
\* an opaque black image of odd width and height, one of them at least 5
\* (1x5, 3x5, 5x5, ...), the center after 3 iterations with radius 1 is
\* strictly below the center after 1 iteration.
C10_MoreIterationsDarkerCenterFrom5 ==
    BrightBlurredThrice(5) => CenterDarkerThanAfterOnePass

\* the 3x5 image, which has a side of 3: the center is 33 after 1 iteration
\* and 29 after 3
C10_Witness ==
    /\ BrightBlurredThrice(5)
    /\ width = U32(3) /\ height = U32(5)
    /\ CenterOf(weighted_blur(orig, 3, 5, 1, 1), 3, 5) = 33
    /\ CenterOf(weighted_blur(orig, 3, 5, 1, 2), 3, 5) = 37
    /\ CenterOf(rgba_data.mem, 3, 5) = 29

----------------------------------------------------------------------------
(* Properties of one bright pixel over the passes (SpecBright) *)

\* the red byte of the pixel at (px, py)
ValueAt(data, w, px, py) == data[(py * w + px) * BYTES_PER_PIXEL + 1]

\* the places of the image
Places == (0..(BytesToNat(width) - 1)) \X (0..(BytesToNat(height) - 1))

\* the image is one pixel of the value bright at the place p of an opaque
\* image whose other pixels have the value dark, and it is blurred with
\* radius 1 or more
BrightBlurred(p, bright, dark) ==
    /\ cfg.radius >= 1
    /\ orig = BrightAt(BytesToNat(width), BytesToNat(height), p[1], p[2], bright, dark)

\* a pass after the first one does not brighten the pixel at the place p
LaterPassKeepsDark(p) ==
    (Len(hist) >= 1 /\ hist' = Append(hist, "pass")) =>
        ValueAt(rgba_data'.mem, BytesToNat(width), p[1], p[2])
            <= ValueAt(rgba_data.mem, BytesToNat(width), p[1], p[2])

\* the pairs of a bright and a dark value of the images
BrightOnDark == {<<255, 0>>, <<102, 17>>}

\* the place p is at least 2 pixels away from every border of the image
AwayFromBorders(p) ==
    /\ p[1] \in Inner(BytesToNat(width), 2)
    /\ p[2] \in Inner(BytesToNat(height), 2)

----------------------------------------------------------------------------
(* Properties of the sequence of a run (Spec) *)

\* the errors of the steps before the entry point is invoked
EarlyErrors == {"Io", "ImageLoad", "PluginLoad", "SymbolLoad"}

\* each step has the steps before it behind it: the image is decoded after
\* the parameters were read, the module is loaded after the image was
\* decoded, the entry point is invoked once, after the module was opened and
\* its symbol bound, and the output is saved after the invocation
StepsInOrder ==
    /\ ~rgba_data.null => ~params.null
    /\ err = "Io" => params.null /\ rgba_data.null
    /\ err = "ImageLoad" => ~params.null /\ rgba_data.null
    /\ err \in {"PluginLoad", "SymbolLoad"} => ~params.null /\ ~rgba_data.null
    /\ pc = "loaded" => ~rgba_data.null /\ calls = 0
    /\ calls \in {0, 1}
    /\ calls = 1 <=> \/ pc \in {"processed", "saved"}
                     \/ (pc = "failed" /\ err \in {"PluginExec", "ImageSave"})
    /\ calls = 1 => /\ ~params.null /\ ~rgba_data.null
                    /\ PluginDir(plugin).exists /\ PluginDir(plugin).exports
    /\ ~output.null <=> pc = "saved"

\* a failure before the invocation ends the run: failing exit code, no
\* invocation, no output
EarlyFailureIsTerminal ==
    /\ (~PluginDir(plugin).exists \/ ~PluginDir(plugin).exports) => calls = 0
    /\ err \in EarlyErrors => pc = "failed" /\ ExitCode = 1 /\ calls = 0 /\ output.null
    /\ pc = "failed" <=> err # "none"

\* C12: the run of the host is a strict sequence without retry: parameters
\* read, image decoded, module loaded and its symbol bound, entry point
\* invoked exactly once, output saved; when reading, decoding, opening or
\* binding fails the run ends with an error and a failing exit code, the
\* entry point is not invoked and no output is written, and nothing follows.
C12_StrictSequenceNoRetry ==
    /\ [](StepsInOrder /\ EarlyFailureIsTerminal)
    /\ [][pc \notin {"failed", "saved"}]_vars

\* the module file was opened and has no process_image symbol: the run
\* failed after the image was decoded, without invocation or output
C12_Witness ==
    /\ pc = "failed"
    /\ err = "SymbolLoad"
    /\ plugin = "no_symbol_plugin"
    /\ ~params.null /\ ~rgba_data.null
    /\ calls = 0
    /\ output.null
    /\ ExitCode = 1

----------------------------------------------------------------------------
(* Properties of the decoding of JSON objects (SpecCall) *)

\* the call passed the checks of the pointers and of the dimensions
CallAccepted == pc = "returned" /\ ~(NullPassed \/ ZeroDim \/ Overflows)

\* the original image with the flips of <<horizontal, vertical>> applied
Flipped(hv) ==
    LET w == BytesToNat(width)
        h == BytesToNat(height)
    IN IF hv[1] /\ hv[2] THEN Rotate180(ImageBytes(orig))
       ELSE IF hv[1] THEN flip_horizontal(ImageBytes(orig), w, h)
       ELSE IF hv[2] THEN flip_vertical(ImageBytes(orig), w, h)
       ELSE ImageBytes(orig)

\* C13: in both modules a well-formed JSON object decodes field by field:
\* unknown keys are ignored and each absent key takes its default whatever
\* keys are present (blur: radius 1, iterations 1; mirror: horizontal false,
\* vertical false). The empty object makes mirror_plugin return 0 with the
\* buffer unchanged and makes blur_plugin run one pass with radius 1. The
\* buffer is the width * height * 4 bytes of the image; bytes of the caller's
\* memory after them are left as they were.
C13_FieldWiseDefaults ==
    CallAccepted =>
        /\ BytesAfterImage(rgba_data.mem) = BytesAfterImage(orig)
        /\ \A c \in MirrorDecoded :
              (plugin = "mirror_plugin" /\ IsObject(c[1]) /\ params.mem = c[1]) =>
                  /\ status = Returned(0)
                  /\ cfg.set /\ cfg.horizontal = c[2][1] /\ cfg.vertical = c[2][2]
                  /\ ImageBytes(rgba_data.mem) = Flipped(c[2])
        /\ \A c \in BlurDecoded :
              (plugin = "blur_plugin" /\ IsObject(c[1]) /\ params.mem = c[1]) =>
                  /\ cfg.set /\ cfg.radius = c[2][1] /\ cfg.iterations = c[2][2]
                  /\ ImageBytes(rgba_data.mem) =
                         weighted_blur(ImageBytes(orig), BytesToNat(width),
                                       BytesToNat(height), c[2][1], c[2][2])
        /\ (plugin = "mirror_plugin" /\ params.mem = <<LBrace, RBrace>>) =>
              status = Returned(0) /\ rgba_data.mem = orig
        /\ (plugin = "blur_plugin" /\ params.mem = <<LBrace, RBrace>>) =>
              /\ cfg.radius = 1 /\ cfg.iterations = 1
              /\ ImageBytes(rgba_data.mem) =
                     blur_pass(ImageBytes(orig), BytesToNat(width), BytesToNat(height),
                               1, zeroes(Len(ImageBytes(orig))))

\* blur_plugin was given an object with an unknown key, a radius and no
\* iterations: it blurred the 3x3 image once with radius 2
C13_Witness ==
    /\ CallAccepted
    /\ plugin = "blur_plugin"
    /\ params.mem = Object2(Member("horizontal", JTrue), Member("radius", Num(2)))
    /\ orig = Quadrant(3, 3)
    /\ cfg.radius = 2 /\ cfg.iterations = 1
    /\ rgba_data.mem = weighted_blur(orig, 3, 3, 2, 1)
    /\ rgba_data.mem # weighted_blur(orig, 3, 3, 1, 1)

----------------------------------------------------------------------------
(* Properties of the two buffers of the blur (SpecBlur) *)

\* the pass of weighted_blur with the pixels of every row taken from the last
\* column to the first
RECURSIVE blur_row_reversed(_, _, _, _, _, _, _)
blur_row_reversed(data, w, h, radius, temp, y, x) ==
    LET dst == (y * w + x) * BYTES_PER_PIXEL
    IN IF x < 0 \/ dst + BYTES_PER_PIXEL > Len(temp) THEN temp
       ELSE LET px == blur_pixel(data, w, h, x, y, radius)
            IN blur_row_reversed(data, w, h, radius,
                                 [temp EXCEPT ![dst + 1] = px[1], ![dst + 2] = px[2],
                                              ![dst + 3] = px[3], ![dst + 4] = px[4]],
                                 y, x - 1)

\* ... and the rows taken from the last to the first
RECURSIVE blur_rows_reversed(_, _, _, _, _, _)
blur_rows_reversed(data, w, h, radius, temp, y) ==
    IF y < 0 \/ (y + 1) * w * BYTES_PER_PIXEL > Len(temp) THEN temp
    ELSE blur_rows_reversed(data, w, h, radius,
                            blur_row_reversed(data, w, h, radius, temp, y, w - 1),
                            y - 1)

\* a step of the loop of weighted_blur: every pixel of the buffer after the
\* pass is the average over the buffer before the pass; the pass with the
\* rows and the pixels taken in the reverse order, with temp holding a copy
\* of the buffer in place of zeroes, makes the same buffer
PassReadsStartOfPass ==
    hist' = Append(hist, "pass") =>
        LET w == BytesToNat(width)
            h == BytesToNat(height)
            before == rgba_data.mem
            after == rgba_data'.mem
        IN /\ Len(after) = Len(before)
           /\ \A x \in Columns, y \in Rows :
                 PixelAt(after, w, x, y) = blur_pixel(before, w, h, x, y, cfg.radius)
           /\ after = blur_rows_reversed(before, w, h, cfg.radius, before, h - 1)

\* the loop has ended: the buffer is what weighted_blur makes of the original
\* in as many iterations as there were passes, each pass read the output of
\* the pass before it
PassesChain ==
    pc = "blur_done" =>
        /\ Len(hist) = cfg.iterations
        /\ rgba_data.mem = weighted_blur(orig, BytesToNat(width), BytesToNat(height),
                                         cfg.radius, Len(hist))

\* C14: each pass of the blur is double-buffered: the new value of every
\* pixel is computed only from the buffer as it was at the start of the pass,
\* so the result does not depend on the order the pixels or rows are taken
\* in; the working buffer is replaced only after all pixels were computed,
\* and pass k + 1 reads exactly the output of pass k.
C14_PassIsDoubleBuffered == [][PassReadsStartOfPass]_vars /\ []PassesChain

\* weighted_blur returned after two passes with radius 1 over the 3x3 image
\* of four colours: the second pass changed what the first pass made
C14_Witness ==
    /\ pc = "blur_done"
    /\ orig = Quadrant(3, 3)
    /\ cfg.radius = 1
    /\ hist = <<"pass", "pass">>
    /\ rgba_data.mem = blur_pass(blur_pass(orig, 3, 3, 1, zeroes(Len(orig))), 3, 3, 1,
                                 zeroes(Len(orig)))
    /\ rgba_data.mem # blur_pass(orig, 3, 3, 1, zeroes(Len(orig)))
    /\ rgba_data.mem # in_place_rows(in_place_rows(orig, 3, 3, 1, 0), 3, 3, 1, 0)

----------------------------------------------------------------------------
(* Properties of the window of the blur (SpecBlur) *)

Max(a, b) == IF a >= b THEN a ELSE b

\* the pixels of the image within radius columns and rows of (x, y)
ClippedWindow(w, h, x, y, radius) ==
    {<<nx, ny>> \in (0..(w - 1)) \X (0..(h - 1)) :
        /\ Max(0, x - radius) <= nx /\ nx <= Min(w - 1, x + radius)
        /\ Max(0, y - radius) <= ny /\ ny <= Min(h - 1, y + radius)}

\* the sums of the visits added one after the other: st = <<the visit to
\* add next, the sums so far>>
RECURSIVE SumOfVisits(_, _, _, _, _, _)
SumOfVisits(data, w, x, y, visits, st) ==
    IF st[1] > Len(visits) THEN st[2]
    ELSE SumOfVisits(data, w, x, y, visits,
                     <<st[1] + 1,
                       AddSums(st[2], weighted_pixel(data, w, x, y, visits[st[1]][1],
                                                     visits[st[1]][2]))>>)

\* the window of the pixel (x, y) of the buffer of the state
WindowIsClipped(x, y) ==
    LET w == BytesToNat(width)
        h == BytesToNat(height)
        data == rgba_data.mem
        visits == neighborhood(w, h, x, y, cfg.radius)
        sums == accumulate_neighborhood(data, w, h, x, y, cfg.radius)
    IN \* every pixel of the clipped window, and no other
       /\ {visits[i] : i \in 1..Len(visits)} = ClippedWindow(w, h, x, y, cfg.radius)
       \* once each
       /\ \A i, j \in 1..Len(visits) : visits[i] = visits[j] => i = j
       \* the pixel itself is one of them
       /\ \E i \in 1..Len(visits) : visits[i] = <<x, y>>
       \* every byte read is a byte of the image
       /\ \A i \in 1..Len(visits) :
             \A b \in src_bytes(w, visits[i][1], visits[i][2]) :
                 /\ 0 <= b /\ b < w * h * BYTES_PER_PIXEL
                 /\ b + 1 \in DOMAIN data
       \* the sums are the sums over these visits
       /\ sums = SumOfVisits(data, w, x, y, visits, <<1, NoSums>>)
       \* total_weight >= 1.0: the division has a divisor
       /\ ~F64Less(sums[5], F64One)
       /\ ~IsF64Zero(sums[5])

\* C15: the neighbourhood of the blur is clipped to the image, never wrapped
\* or padded: for every width and height >= 1, every pixel (x, y) and every
\* radius >= 0, radii larger than both dimensions included,
\* accumulate_neighborhood visits exactly once each pixel (nx, ny) with
\* max(0, x - r) <= nx <= min(w - 1, x + r) and max(0, y - r) <= ny <=
\* min(h - 1, y + r), and no other; every byte index it reads is in
\* [0, w * h * 4); the window contains (x, y), so total_weight >= 1 and the
\* division is never by zero.
C15_WindowIsClipped ==
    \A x \in Columns, y \in Rows : WindowIsClipped(x, y)

\* a pass with radius 2 over the 3x3 image of distinct bytes: the window of
\* every pixel is the whole image, 9 pixels and not 25
C15_Witness ==
    /\ pc = "blur"
    /\ orig = Ramp(3, 3)
    /\ cfg.radius = 2
    /\ hist = <<"pass">>
    /\ rgba_data.mem # orig
    /\ \A x \in 0..2, y \in 0..2 :
          /\ Len(neighborhood(3, 3, x, y, 2)) = 9
          /\ F64Less(accumulate_neighborhood(orig, 3, 3, x, y, 2)[5],
                     F64TimesU8(9, F64One))
    /\ neighborhood(3, 3, 0, 0, 2)[1] = <<0, 0>>
    /\ neighborhood(3, 3, 2, 2, 2)[1] = <<0, 0>>

----------------------------------------------------------------------------
(* Properties of the buffer the host passes (Spec) *)

\* the buffer of the host has width * height * 4 bytes
HostBufferFitsDims ==
    /\ ~rgba_data.null
    /\ Len(rgba_data.mem) = BytesToNat(width) * BytesToNat(height) * BYTES_PER_PIXEL

\* the view the module builds from the dimensions it was given is the buffer
\* of the host: as long, and every byte the module accessed is one of its bytes
ViewWithinHostBuffer ==
    /\ buf_len_of(width, height).some
    /\ BytesToNat(buf_len_of(width, height).v) = Len(orig)
    /\ Len(rgba_data.mem) = Len(orig)
    /\ touched \subseteq 0..(Len(orig) - 1)

\* C16: every invocation of a module's entry point made through
\* PluginLoader::process_image(width, height, rgba_data, params) passes a
\* buffer of exactly width * height * 4 bytes, so the view of width * height
\* * 4 bytes the module builds from the raw pointer never extends beyond the
\* buffer of the host.
C16_HostBufferMatchesDims ==
    /\ pc \in {"image_open", "loaded"} => HostBufferFitsDims /\ rgba_data.mem = orig
    /\ calls >= 1 => HostBufferFitsDims /\ ViewWithinHostBuffer

\* mirror_plugin was invoked by the host on the 3x3 image that was decoded
\* as RGB, 27 bytes, and converted to 36 bytes of RGBA, and flipped it both
\* ways: the bytes it accessed reach the last byte of the buffer and none
\* beyond
C16_Witness ==
    /\ pc = "processed"
    /\ calls = 1
    /\ plugin = "mirror_plugin"
    /\ width = U32(3) /\ height = U32(3)
    /\ orig = into_rgba8(DynamicImage(3, 3, "Rgb8", SubSeq(Ramp(3, 3), 1, 27)))
    /\ cfg.horizontal /\ cfg.vertical
    /\ rgba_data.mem = Rotate180(orig)
    /\ Len(orig) - 1 \in touched
    /\ Len(orig) \notin touched
    /\ Len(rgba_data.mem) = 3 * 3 * BYTES_PER_PIXEL

============================================================================
